---- MODULE Spec2Model ----
(***************************************************************************)
(* Model of the maze filter engine (github.com/quintans/maze):             *)
(*   - rule compilation            Filter.setRule            (filter.go)   *)
(*   - method / path matching      Filter.IsValid, validate  (filter.go)   *)
(*   - registration                Maze.PushMethod           (maze.go)     *)
(*   - chain traversal             MazeContext.Next          (context.go)  *)
(*   - dispatching                 Maze.ServeHTTP            (maze.go)     *)
(*   - captured path parameters    MazeContext.PathValues    (context.go)  *)
(*   - response buffering          ResponseBuffer            (filters.go)  *)
(*   - JSON-RPC service filters    JsonRpc.Build     (example/full)        *)
(*   - server-sent events          SseBroker.Send, Serve     (part_001)    *)
(*                                                                         *)
(* Specifications: Spec (registration and traversal), SpecPush             *)
(* (registration alone), SpecMatch (one filter compiled and applied to one *)
(* request), SpecScenario (the example chains, with handlers that write    *)
(* and that read the path values), SpecConcurrent (two requests served at  *)
(* once), SpecBuffer (chains with ResponseBuffer filters and handlers that *)
(* panic), SpecRpc (services built by JsonRpc.Build), SpecTerminate        *)
(* (handlers that return, with fairness), SpecSse and SpecSseFair (the     *)
(* goroutines around the broker of server-sent events, without and with    *)
(* fairness).                                                              *)
(*                                                                         *)
(* Go strings that the engine inspects character by character (rules and   *)
(* request paths) are sequences of one-character strings; strings that are *)
(* only compared as a whole (HTTP methods, error messages) are TLA+        *)
(* strings.                                                                *)
(***************************************************************************)
EXTENDS Integers, Sequences, FiniteSets, TLC

----------------------------------------------------------------------------
(* Bounds of the model                                                     *)

\* number of handlers handed to one PushMethod call
MaxHandlers == 2
\* number of Proceed() calls one handler invocation makes
MaxProceed == 3
\* length of the chain
MaxFilters == 4
\* length of the enumerated patterns
MaxRuleLen == 3
\* length of the enumerated request paths
MaxPathLen == 4

----------------------------------------------------------------------------
(* Go strings                                                              *)

\* strings.HasPrefix
HasPrefix(s, p) == Len(p) <= Len(s) /\ SubSeq(s, 1, Len(p)) = p

\* strings.HasSuffix
HasSuffix(s, p) == Len(p) <= Len(s) /\ SubSeq(s, Len(s) - Len(p) + 1, Len(s)) = p

\* strings.Index(s, c) != -1, for a one-character c
Contains(s, c) == \E i \in 1..Len(s) : s[i] = c

\* strings.Split(s, sep) for a one-character separator: always at least one
\* element, the empty string included
RECURSIVE Split(_, _)
Split(s, sep) ==
    IF ~Contains(s, sep) THEN <<s>>
    ELSE LET i == CHOOSE k \in 1..Len(s) :
                     s[k] = sep /\ \A j \in 1..(k - 1) : s[j] # sep
         IN  <<SubSeq(s, 1, i - 1)>> \o Split(SubSeq(s, i + 1, Len(s)), sep)

\* the patterns and paths of the model
EmptyStr == <<>>
StarRule == <<"*">>
RuleA    == <<"/", "a">>
RuleB    == <<"/", "b">>
RuleAll  == <<"/", "*">>

\* the strings of at most n characters over an alphabet
Strings(chars, n) == UNION {[1..m -> chars] : m \in 0..n}

\* the patterns of the registration examples (README, example/rest)
RuleGreet == <<"/", "g", "r", "e", "e", "t", "/", "*">>
RuleSayHi == <<"s", "a", "y", "h", "i", "/", ":", "i", "d">>
RuleQ     == <<"/", "q">>
RuleRStar == <<"r", "*">>
RuleStarS == <<"*", "s">>

----------------------------------------------------------------------------
(* Filters                                                                 *)

WILDCARD        == <<"*">>
WILDCARD_BEFORE == -1
WILDCARD_AFTER  == 1

\* a nil []string: distinct from every slice of methods, the empty one
\* included
NilMethods == <<"<nil>">>

\* a nil handler result, and an error carrying a message
NilError    == [isNil |-> TRUE, msg |-> <<>>]
NewError(m) == [isNil |-> FALSE, msg |-> m]
\* error.Error()
ErrorMsg(e) == e.msg
\* the error the handler of the filter at chain position i returns when it
\* fails: its message names the handler
OwnError(i) == NewError(<<"error of handler", i>>)

\* &Filter{handler: v}: the zero value of every other field
ZeroFilter(h) ==
    [route |-> EmptyStr, wildcard |-> 0, template |-> <<>>,
     allowedMethods |-> NilMethods, handler |-> h]

\* mutant of setRule: the parameter marker is looked for before the
\* wildcard marker
setRule_TemplateFirst(f, methods, rule) ==
    LET g == IF rule = EmptyStr THEN f
             ELSE IF Contains(rule, ":")
                  THEN [f EXCEPT !.route = rule, !.template = Split(rule, "/")]
             ELSE IF HasPrefix(rule, WILDCARD)
                  THEN [f EXCEPT !.route = SubSeq(rule, 2, Len(rule)),
                                 !.wildcard = WILDCARD_BEFORE]
             ELSE IF HasSuffix(rule, WILDCARD)
                  THEN [f EXCEPT !.route = SubSeq(rule, 1, Len(rule) - 1),
                                 !.wildcard = WILDCARD_AFTER]
             ELSE [f EXCEPT !.route = rule]
    IN  [g EXCEPT !.allowedMethods = methods]

\* Filter.setRule
setRule(f, methods, rule) ==
    LET g == IF rule = EmptyStr THEN f
             ELSE IF HasPrefix(rule, WILDCARD)
                  THEN [f EXCEPT !.route = SubSeq(rule, 2, Len(rule)),
                                 !.wildcard = WILDCARD_BEFORE]
             ELSE IF HasSuffix(rule, WILDCARD)
                  THEN [f EXCEPT !.route = SubSeq(rule, 1, Len(rule) - 1),
                                 !.wildcard = WILDCARD_AFTER]
             ELSE IF Contains(rule, ":")
                  THEN [f EXCEPT !.route = rule, !.template = Split(rule, "/")]
             ELSE [f EXCEPT !.route = rule]
    IN  [g EXCEPT !.allowedMethods = methods]

\* NewFilter
NewFilter(rule, h) == setRule(ZeroFilter(h), NilMethods, rule)

\* Filter.String: the pattern the filter was compiled from
String(f) ==
    (IF f.wildcard = WILDCARD_BEFORE THEN WILDCARD ELSE EmptyStr)
    \o f.route
    \o (IF f.wildcard = WILDCARD_AFTER THEN WILDCARD ELSE EmptyStr)

\* mutant of ConvertHandlers: the filters are built in reverse argument order
ConvertHandlers_Reversed(handlers) ==
    [k \in 1..Len(handlers) |-> ZeroFilter(handlers[Len(handlers) + 1 - k])]

\* ConvertHandlers / convertHandlers
ConvertHandlers(handlers) ==
    [k \in 1..Len(handlers) |-> ZeroFilter(handlers[k])]

\* mutant of validate: a path with more segments than the template is
\* accepted
validate_Partial(f, path) ==
    LET parts == Split(path, "/")
    IN  /\ Len(parts) >= Len(f.template)
        /\ \A k \in 1..Len(f.template) :
              HasPrefix(f.template[k], <<":">>) \/ f.template[k] = parts[k]

\* Filter.validate
validate(f, path) ==
    LET parts == Split(path, "/")
    IN  /\ Len(parts) = Len(f.template)
        /\ \A k \in 1..Len(f.template) :
              HasPrefix(f.template[k], <<":">>) \/ f.template[k] = parts[k]

\* mutant of MethodGuard: every method is allowed
MethodGuard_Always(f, request) == TRUE

\* mutant of MethodGuard: an empty request method is not read as GET
MethodGuard_NoDefault(f, request) ==
    IF f.allowedMethods = NilMethods THEN TRUE
    ELSE \E i \in 1..Len(f.allowedMethods) :
             f.allowedMethods[i] = request.Method

\* the method guard of Filter.IsValid
MethodGuard(f, request) ==
    IF f.allowedMethods = NilMethods THEN TRUE
    ELSE LET method == IF request.Method = "" THEN "GET" ELSE request.Method
         IN  \E i \in 1..Len(f.allowedMethods) : f.allowedMethods[i] = method

\* mutant of PathGuard: the two wildcard shapes are swapped
PathGuard_Swapped(f, request) ==
    LET path == request.Path
    IN  IF f.wildcard = WILDCARD_BEFORE THEN HasPrefix(path, f.route)
        ELSE IF f.wildcard = WILDCARD_AFTER THEN HasSuffix(path, f.route)
        ELSE IF f.template # <<>> THEN validate(f, path)
        ELSE path = f.route

\* the path guard of Filter.IsValid
PathGuard(f, request) ==
    LET path == request.Path
    IN  IF f.wildcard = WILDCARD_BEFORE THEN HasSuffix(path, f.route)
        ELSE IF f.wildcard = WILDCARD_AFTER THEN HasPrefix(path, f.route)
        ELSE IF f.template # <<>> THEN validate(f, path)
        ELSE path = f.route

\* mutant of IsValid: no test for the empty route
IsValid_NoRouteTest(f, request) ==
    MethodGuard(f, request) /\ PathGuard(f, request)

\* Filter.IsValid
IsValid(f, request) ==
    IF f.route = EmptyStr THEN FALSE
    ELSE MethodGuard(f, request) /\ PathGuard(f, request)

----------------------------------------------------------------------------
(* State                                                                   *)

\* the request workers of the model; a specification makes a subset of
\* them serve requests
ReqIds == {1, 2}

\* the PushMethod calls of the setup phase
RegIds == {1, 2}

\* the patterns handed to PushMethod, the methods and the request inputs
Rules      == {RuleA, RuleB, RuleAll, StarRule}
MethodSets == {NilMethods, <<"GET">>}
Methods    == {"GET", "POST"}
Paths      == {RuleA, RuleB}

\* chain positions are Go indexes: 0 .. len(filters) - 1
\* the caller of the first Proceed(): Maze.ServeHTTP, not a filter
Dispatcher == -1
\* nextFilter() returned nil, or Next() invoked no handler
NoFilter == -1

VARIABLES
    filters,         \* Maze.filters: the chain (Go index i is filters[i + 1])
    lastRule,        \* Maze.lastRule
    contextFactory,  \* Maze.contextFactory: "nil" or "custom"
    regs,            \* number of PushMethod calls made so far
    serving,         \* ListenAndServe was called: the setup phase is over
    workers,         \* the request workers that serve requests
    pc,              \* per worker: "idle", "serving", "panicking" (a panic is
                     \* unwinding the handlers), "done", "panic"
    request,         \* per worker: the request, [Method, Path]
    built,           \* per worker: how the context was built ("none" when
                     \* ServeHTTP built no context)
    filterPos,       \* per worker: MazeContext.filterPos (Go index)
    stack,           \* per worker: the call stack, ServeHTTP at the bottom
    Response,        \* per worker: what was written to the response sink
    log,             \* history: per worker, the chain positions of the
                     \* handlers invoked, in order of invocation
    event,           \* history: per worker, the last Proceed() call or
                     \* handler return
    prop,            \* history: per worker, the error that has been handed
                     \* up, since a handler returned it, only by handlers
                     \* returning the result of their Proceed() call
                     \* (NilError when there is none)
    pathValues,      \* per worker: MazeContext.pathValues, the cache of
                     \* the captured path parameters
    pushed,          \* history: the registration calls made so far, in
                     \* order, with their arguments, the rule handed to
                     \* setRule and the chain length before the call
    probe,           \* the last application of Filter.IsValid made by
                     \* the action Match: its inputs and its result
    sink,            \* per worker: MazeContext.Response, the sink handlers
                     \* get from GetResponse(): OriginalSink, or the chain
                     \* position of the ResponseBuffer whose buffer it is
    buffers,         \* per worker: what was written to the buffer of the
                     \* ResponseBuffer at each chain position
    saved,           \* per worker: the running ResponseBuffer invocations,
                     \* outermost first: the depth of the stack frame, the
                     \* chain position, the sink w it will restore, and
                     \* whether it is past its flush
    Attributes,      \* per worker: MazeContext.Attributes, the value set
                     \* for each key, NilAttribute for a key never set
    mutex,           \* SseBroker's lock: Unlocked, or the process holding it
    subscribers,     \* SseBroker.subscribers: the channels subscribed
    chans,           \* per client: the channel sub that its Serve call made
    ssePc,           \* per process of the broker: where it stands
    todo,            \* per Send call: the subscribers still to be sent to
    ssePanic         \* the run-time panic that stopped the program, if any

\* the state of the broker of server-sent events
sseVars == <<mutex, subscribers, chans, ssePc, todo, ssePanic>>

\* the state of the engine and of the requests it serves
mazeVars == <<filters, lastRule, contextFactory, regs, serving, workers, pc,
              request, built, filterPos, stack, Response, log, event, prop,
              pathValues, pushed, probe, sink, buffers, saved, Attributes>>

vars == <<mazeVars, sseVars>>

bufferVars == <<sink, buffers, saved>>

setupVars == <<filters, lastRule, contextFactory, regs, serving, workers,
               pushed>>

\* a stack frame: the chain position of the running handler (Dispatcher for
\* ServeHTTP), the number of Proceed() calls it has made, the result of its
\* last Proceed() call, and the number of handlers invoked before it
Frame(idx, at) == [idx |-> idx, ncalls |-> 0, last |-> NilError, at |-> at]

Top(st) == st[Len(st)]

NoEvent == [kind |-> "none"]

\* a Values map: the keys and the list of values of each key
EmptyValues == [keys |-> {}, val |-> [x \in {} |-> <<>>]]

\* MazeContext.pathValues: nil until PathValues() has computed the map
NilValues == [isNil |-> TRUE, map |-> EmptyValues]

\* no application of IsValid has been made
NoProbe == [made |-> FALSE]

\* the http.ResponseWriter ServeHTTP was handed
OriginalSink == -1

\* the keys and values handlers keep in the attributes of a context, and
\* what the lookup of a missing key returns
AttrKeys == {"user"}
AttrValues == {"u", "v"}
NilAttribute == "<nil>"

\* Attributes: map[interface{}]interface{}{} of NewContext
NoAttributes == [k \in AttrKeys |-> NilAttribute]

\* web.NewBufferedResponse() at every chain position: nothing written
NoBuffers == [i \in 0..(MaxFilters - 1) |-> <<>>]

----------------------------------------------------------------------------
(* Setup: NewMaze, PushMethod, ListenAndServe                              *)

\* the clients of the event stream (one Serve call and one channel each)
\* and the Send calls that may run at the same time
Clients == {1, 2}
Senders == {1, 2}

\* the goroutines around the broker: the Serve call of a client, the
\* goroutine it starts to wait for the close notification, a Send call
ServeOf(c)  == <<"serve", c>>
NotifyOf(c) == <<"notify", c>>
SendOf(s)   == <<"send", s>>
Procs == {ServeOf(c) : c \in Clients} \cup {NotifyOf(c) : c \in Clients}
             \cup {SendOf(s) : s \in Senders}

\* sync.RWMutex with no holder
Unlocked == <<"none", 0>>

\* make(chan []byte, 1)
ChanCap == 1
MakeChan == [buf |-> <<>>, closed |-> FALSE, closes |-> 0]

\* NewSseBroker, and no goroutine started yet
InitBroker ==
    /\ mutex = Unlocked
    /\ subscribers = {}
    /\ chans = [c \in Clients |-> MakeChan]
    /\ ssePc = [p \in Procs |-> "idle"]
    /\ todo = [s \in Senders |-> {}]
    /\ ssePanic = "none"

\* NewMaze
InitMaze ==
    /\ filters = <<>>
    /\ lastRule = EmptyStr
    /\ contextFactory \in {"nil", "custom"}
    /\ regs = 0
    /\ serving = FALSE
    /\ pushed = <<>>

InitWorkers ==
    /\ pc = [r \in ReqIds |-> "idle"]
    /\ request = [r \in ReqIds |-> [Method |-> "", Path |-> EmptyStr]]
    /\ built = [r \in ReqIds |-> "none"]
    /\ filterPos = [r \in ReqIds |-> -1]
    /\ stack = [r \in ReqIds |-> <<>>]
    /\ Response = [r \in ReqIds |-> <<>>]
    /\ log = [r \in ReqIds |-> <<>>]
    /\ event = [r \in ReqIds |-> NoEvent]
    /\ prop = [r \in ReqIds |-> NilError]
    /\ pathValues = [r \in ReqIds |-> NilValues]
    /\ sink = [r \in ReqIds |-> OriginalSink]
    /\ buffers = [r \in ReqIds |-> NoBuffers]
    /\ saved = [r \in ReqIds |-> <<>>]
    /\ Attributes = [r \in ReqIds |-> NoAttributes]

Init ==
    /\ InitMaze
    /\ workers = {1}
    /\ InitWorkers
    /\ probe = NoProbe
    /\ InitBroker

\* mutant of EffectiveRule: a separator is inserted between the group
\* prefix and the relative rule
EffectiveRule_Separator(last, rule) ==
    IF HasPrefix(rule, <<"/">>) THEN rule
    ELSE IF ~HasPrefix(rule, <<"*">>)
         THEN IF last = EmptyStr THEN <<"/">> \o rule
              ELSE last \o <<"/">> \o rule
    ELSE rule

\* mutant of EffectiveRule: the empty rule is left empty
EffectiveRule_EmptyStays(last, rule) ==
    IF rule = EmptyStr THEN rule
    ELSE IF HasPrefix(rule, <<"/">>) THEN rule
    ELSE IF ~HasPrefix(rule, <<"*">>)
         THEN IF last = EmptyStr THEN <<"/">> \o rule ELSE last \o rule
    ELSE rule

\* the rule PushMethod compiles, after the concatenation with lastRule
EffectiveRule(last, rule) ==
    IF HasPrefix(rule, <<"/">>) THEN rule
    ELSE IF ~HasPrefix(rule, <<"*">>)
         THEN IF last = EmptyStr THEN <<"/">> \o rule ELSE last \o rule
    ELSE rule

\* mutant of NextLastRule: an absolute rule that is no group rule leaves
\* lastRule as it is
NextLastRule_NoReset(last, rule) ==
    IF HasPrefix(rule, <<"/">>) /\ HasSuffix(rule, <<"*">>)
    THEN SubSeq(rule, 1, Len(rule) - 1)
    ELSE last

\* mutant of NextLastRule: a relative rule ending with the wildcard opens a
\* group below the current one
NextLastRule_RelativeGroup(last, rule) ==
    IF HasPrefix(rule, <<"/">>)
    THEN IF HasSuffix(rule, <<"*">>) THEN SubSeq(rule, 1, Len(rule) - 1)
         ELSE EmptyStr
    ELSE IF ~HasPrefix(rule, <<"*">>) /\ HasSuffix(rule, <<"*">>)
         THEN (IF last = EmptyStr THEN <<"/">> ELSE last)
              \o SubSeq(rule, 1, Len(rule) - 1)
    ELSE last

\* the value of lastRule after PushMethod
NextLastRule(last, rule) ==
    IF HasPrefix(rule, <<"/">>)
    THEN IF HasSuffix(rule, <<"*">>) THEN SubSeq(rule, 1, Len(rule) - 1)
         ELSE EmptyStr
    ELSE last

\* mutant of PushedFilters: the rule is set on the last filter of the call
PushedFilters_RuleOnLast(last, methods, rule, handlers) ==
    IF Len(handlers) > 0
    THEN LET f == ConvertHandlers(handlers)
         IN  [f EXCEPT ![Len(f)] =
                 setRule(f[Len(f)], methods, EffectiveRule(last, rule))]
    ELSE <<>>

\* the filters PushMethod appends
PushedFilters(last, methods, rule, handlers) ==
    IF Len(handlers) > 0
    THEN LET f == ConvertHandlers(handlers)
         IN  [f EXCEPT ![1] = setRule(f[1], methods, EffectiveRule(last, rule))]
    ELSE <<>>

\* mutant of PushMethod: a call without handlers returns before the rule is
\* looked at
PushMethod_HandlersFirst(methods, rule, k) ==
    /\ ~serving
    /\ Len(filters) + k <= MaxFilters
    /\ regs' = regs + 1
    /\ lastRule' = IF k > 0 THEN NextLastRule(lastRule, rule) ELSE lastRule
    /\ filters' = filters \o
           PushedFilters(lastRule, methods, rule, [j \in 1..k |-> <<regs + 1, j>>])
    /\ pushed' = Append(pushed, [op |-> "PushMethod", methods |-> methods,
                                 rule |-> rule, k |-> k,
                                 compiled |-> EffectiveRule(lastRule, rule),
                                 at |-> Len(filters)])
    /\ UNCHANGED <<contextFactory, serving, workers, pc, request, built,
                   filterPos, stack, Response, log, event, prop, pathValues,
                   probe, sink, buffers, saved,
                   Attributes, sseVars>>

\* Maze.PushMethod; the handlers of the n-th call are named <<n, 1>>,
\* <<n, 2>>, ...  Registration belongs to the setup phase, before the chain
\* is served.
PushMethod(methods, rule, k) ==
    /\ ~serving
    /\ Len(filters) + k <= MaxFilters
    /\ regs' = regs + 1
    /\ lastRule' = NextLastRule(lastRule, rule)
    /\ filters' = filters \o
           PushedFilters(lastRule, methods, rule, [j \in 1..k |-> <<regs + 1, j>>])
    /\ pushed' = Append(pushed, [op |-> "PushMethod", methods |-> methods,
                                 rule |-> rule, k |-> k,
                                 compiled |-> EffectiveRule(lastRule, rule),
                                 at |-> Len(filters)])
    /\ UNCHANGED <<contextFactory, serving, workers, pc, request, built,
                   filterPos, stack, Response, log, event, prop, pathValues,
                   probe, sink, buffers, saved,
                   Attributes, sseVars>>

\* Maze.Add with one filter built by NewFilter(rule, h); the handler of the
\* n-th registration call is named <<n, 1>>
Add(rule) ==
    /\ ~serving
    /\ Len(filters) + 1 <= MaxFilters
    /\ regs' = regs + 1
    /\ filters' = filters \o <<NewFilter(rule, <<regs + 1, 1>>)>>
    /\ pushed' = Append(pushed, [op |-> "Add", methods |-> NilMethods,
                                 rule |-> rule, k |-> 1, compiled |-> rule,
                                 at |-> Len(filters)])
    /\ UNCHANGED <<lastRule, contextFactory, serving, workers, pc, request,
                   built, filterPos, stack, Response, log, event, prop,
                   pathValues, probe, sink, buffers, saved,
                   Attributes, sseVars>>

\* Maze.ListenAndServe: from here on requests are served and the chain is
\* no longer extended
ListenAndServe ==
    /\ ~serving
    /\ serving' = TRUE
    /\ UNCHANGED <<filters, lastRule, contextFactory, regs, workers, pc,
                   request, built, filterPos, stack, Response, log, event,
                   prop, pathValues, pushed, probe, sink, buffers, saved,
                   Attributes, sseVars>>

----------------------------------------------------------------------------
(* Traversal: MazeContext.nextFilter, MazeContext.Next                     *)

\* c.filters[i]
At(fs, i) == fs[i + 1]

\* mutant of nextFilter: the cursor is not pinned at the chain length
nextFilter_NoPin(fs, pos) ==
    IF pos + 1 < Len(fs) THEN [pos |-> pos + 1, next |-> pos + 1]
    ELSE [pos |-> pos + 1, next |-> NoFilter]

\* mutant of nextFilter: the cursor is not incremented once it is on a filter
nextFilter_NoAdvance(fs, pos) ==
    LET p == IF pos < 0 THEN 0 ELSE pos
    IN  IF p < Len(fs) THEN [pos |-> p, next |-> p]
        ELSE [pos |-> Len(fs), next |-> NoFilter]

\* MazeContext.nextFilter: the new filterPos and the position of the filter
\* returned (NoFilter for nil)
nextFilter(fs, pos) ==
    IF pos + 1 < Len(fs) THEN [pos |-> pos + 1, next |-> pos + 1]
    ELSE [pos |-> Len(fs), next |-> NoFilter]

\* mutant of Scan: the loop also stops at a ruleless filter
RECURSIVE Scan_MatchRuleless(_, _, _)
Scan_MatchRuleless(fs, i, req) ==
    IF i >= Len(fs) THEN NoFilter
    ELSE IF At(fs, i).route = EmptyStr \/ IsValid(At(fs, i), req) THEN i
    ELSE Scan_MatchRuleless(fs, i + 1, req)

\* the loop of MazeContext.Next: the first position from i on whose filter
\* IsValid, NoFilter when the loop ends without one
RECURSIVE Scan(_, _, _)
Scan(fs, i, req) ==
    IF i >= Len(fs) THEN NoFilter
    ELSE IF IsValid(At(fs, i), req) THEN i
    ELSE Scan(fs, i + 1, req)

\* mutant of Next: the loop starts at the head of the chain
Next_ScanFromStart(fs, pos, req) ==
    LET nf == nextFilter(fs, pos)
    IN  IF nf.next = NoFilter THEN [pos |-> nf.pos, run |-> NoFilter]
        ELSE IF At(fs, nf.next).route = EmptyStr
             THEN [pos |-> nf.pos, run |-> nf.next]
        ELSE LET i == Scan(fs, 0, req)
             IN  IF i = NoFilter THEN [pos |-> nf.pos, run |-> NoFilter]
                 ELSE [pos |-> i, run |-> i]

\* mutant of Next: when the loop matches nothing, the handler of the filter
\* at the advanced cursor is invoked
Next_InvokeOnMiss(fs, pos, req) ==
    LET nf == nextFilter(fs, pos)
    IN  IF nf.next = NoFilter THEN [pos |-> nf.pos, run |-> NoFilter]
        ELSE IF At(fs, nf.next).route = EmptyStr
             THEN [pos |-> nf.pos, run |-> nf.next]
        ELSE LET i == Scan(fs, nf.pos, req)
             IN  IF i = NoFilter THEN [pos |-> nf.pos, run |-> nf.next]
                 ELSE [pos |-> i, run |-> i]

\* mutant of Next: no branch for the ruleless filter, every filter goes
\* through the loop
Next_NoRulelessBranch(fs, pos, req) ==
    LET nf == nextFilter(fs, pos)
    IN  IF nf.next = NoFilter THEN [pos |-> nf.pos, run |-> NoFilter]
        ELSE LET i == Scan(fs, nf.pos, req)
             IN  IF i = NoFilter THEN [pos |-> nf.pos, run |-> NoFilter]
                 ELSE [pos |-> i, run |-> i]

\* mutant of Next: no loop, only the filter at the advanced cursor is tried
Next_NoScan(fs, pos, req) ==
    LET nf == nextFilter(fs, pos)
    IN  IF nf.next = NoFilter THEN [pos |-> nf.pos, run |-> NoFilter]
        ELSE IF At(fs, nf.next).route = EmptyStr
             THEN [pos |-> nf.pos, run |-> nf.next]
        ELSE IF IsValid(At(fs, nf.next), req)
             THEN [pos |-> nf.pos, run |-> nf.next]
        ELSE [pos |-> nf.pos, run |-> NoFilter]

\* mutant of Next: a ruleless filter is run without the cursor moving to it
Next_RulelessInPlace(fs, pos, req) ==
    LET nf == nextFilter(fs, pos)
    IN  IF nf.next = NoFilter THEN [pos |-> nf.pos, run |-> NoFilter]
        ELSE IF At(fs, nf.next).route = EmptyStr
             THEN [pos |-> pos, run |-> nf.next]
        ELSE LET i == Scan(fs, nf.pos, req)
             IN  IF i = NoFilter THEN [pos |-> nf.pos, run |-> NoFilter]
                 ELSE [pos |-> i, run |-> i]

\* MazeContext.Next up to the call of the handler: the new filterPos and
\* the position of the filter whose handler is invoked (NoFilter when Next
\* returns nil without invoking one)
Next(fs, pos, req) ==
    LET nf == nextFilter(fs, pos)
    IN  IF nf.next = NoFilter THEN [pos |-> nf.pos, run |-> NoFilter]
        ELSE IF At(fs, nf.next).route = EmptyStr
             THEN [pos |-> nf.pos, run |-> nf.next]
        ELSE LET i == Scan(fs, nf.pos, req)
             IN  IF i = NoFilter THEN [pos |-> nf.pos, run |-> NoFilter]
                 ELSE [pos |-> i, run |-> i]

\* mutant of ProceedResult: the handler's result is dropped
ProceedResult_Swallow(v) == NilError

\* "return next.handler(mc)": what Proceed() returns for the handler's result
ProceedResult(v) == v

\* MazeContext.CurrentFilter: the position of the filter returned
CurrentFilter(fs, pos) == IF pos < Len(fs) THEN pos ELSE NoFilter

----------------------------------------------------------------------------
(* Serving: Maze.ServeHTTP and the handlers                                *)

\* http.Error(w, msg, code): the status and the message written to the sink
\* (the line terminator that follows the message is not modelled)
HttpError(msg, code) == [status |-> code, body |-> msg]

\* Maze.ServeHTTP up to its call of ctx.Proceed(): with a non-empty chain a
\* context is built, by NewContext or by the context factory
HasFilters_Always(fs) == TRUE

\* mutant of NewContext: one cursor is shared by all the requests
NewContext_Shared(pos, r) == [q \in ReqIds |-> -1]

\* NewContext, as far as the cursors are concerned: the context built for
\* the request of worker r starts at filterPos -1, the contexts of the other
\* workers are not touched
NewContext(pos, r) == [pos EXCEPT ![r] = -1]

\* the test ServeHTTP makes before it builds a context: len(filters) > 0
HasFilters(fs) == Len(fs) > 0

ServeHTTP(r, method, path) ==
    /\ serving
    /\ r \in workers
    /\ pc[r] \in {"idle", "done", "panic"}
    /\ request' = [request EXCEPT ![r] = [Method |-> method, Path |-> path]]
    /\ filterPos' = NewContext(filterPos, r)
    /\ Response' = [Response EXCEPT ![r] = <<>>]
    /\ log' = [log EXCEPT ![r] = <<>>]
    /\ event' = [event EXCEPT ![r] = NoEvent]
    /\ prop' = [prop EXCEPT ![r] = NilError]
    /\ IF HasFilters(filters)
       THEN /\ built' = [built EXCEPT ![r] =
                            IF contextFactory = "nil" THEN "NewContext"
                            ELSE "contextFactory"]
            /\ stack' = [stack EXCEPT ![r] = <<Frame(Dispatcher, 0)>>]
            /\ pc' = [pc EXCEPT ![r] = "serving"]
       ELSE /\ built' = [built EXCEPT ![r] = "none"]
            /\ stack' = [stack EXCEPT ![r] = <<>>]
            /\ pc' = [pc EXCEPT ![r] = "done"]
    /\ pathValues' = [pathValues EXCEPT ![r] = NilValues]
    /\ sink' = [sink EXCEPT ![r] = OriginalSink]
    /\ buffers' = [buffers EXCEPT ![r] = NoBuffers]
    /\ saved' = [saved EXCEPT ![r] = <<>>]
    /\ Attributes' = [Attributes EXCEPT ![r] = NoAttributes]
    /\ UNCHANGED sseVars
    /\ UNCHANGED <<setupVars, probe>>

\* MazeContext.Proceed, called by ServeHTTP (once) or by the running handler:
\* the cursor moves and either a handler is invoked or nil is returned
Proceed(r) ==
    /\ pc[r] = "serving"
    /\ LET st     == stack[r]
           top    == Top(st)
           res    == Next(filters, filterPos[r], request[r])
           caller == [top EXCEPT !.ncalls = @ + 1]
       IN  /\ IF top.idx = Dispatcher THEN top.ncalls = 0
              ELSE top.ncalls < MaxProceed
           /\ filterPos' = [filterPos EXCEPT ![r] = res.pos]
           /\ event' = [event EXCEPT ![r] =
                           [kind |-> "call", caller |-> top.idx,
                            n |-> caller.ncalls, from |-> filterPos[r],
                            pos |-> res.pos, run |-> res.run,
                            logLen |-> Len(log[r])]]
           /\ IF res.run # NoFilter
              THEN /\ stack' = [stack EXCEPT ![r] =
                          Append([st EXCEPT ![Len(st)] = caller],
                                 Frame(res.run, Len(log[r])))]
                   /\ log' = [log EXCEPT ![r] = Append(@, res.run)]
              ELSE /\ stack' = [stack EXCEPT ![r] =
                          [st EXCEPT ![Len(st)] =
                              [caller EXCEPT !.last = NilError]]]
                   /\ UNCHANGED log
    /\ prop' = [prop EXCEPT ![r] = NilError]
    /\ UNCHANGED <<setupVars, probe, pathValues, bufferVars, Attributes, sseVars>>
    /\ UNCHANGED <<pc, request, built, Response>>

\* mutant of HandlerReturn: after a handler that returned nil, Next goes on to
\* the next filter of the chain instead of returning
HandlerReturn_FallThrough(r, v, pass) ==
    /\ pc[r] = "serving"
    /\ LET st  == stack[r]
           top == Top(st)
           nf  == nextFilter(filters, filterPos[r])
       IN  /\ top.idx # Dispatcher
           /\ IF pass THEN top.ncalls > 0 /\ v = top.last
              ELSE v \in {NilError, OwnError(top.idx)}
           /\ event' = [event EXCEPT ![r] =
                           [kind |-> "return", idx |-> top.idx, val |-> v,
                            pass |-> pass, ncalls |-> top.ncalls,
                            ran |-> Len(log[r]) - top.at - 1]]
           /\ prop' = [prop EXCEPT ![r] = IF pass THEN @ ELSE v]
           /\ IF v = NilError /\ nf.next # NoFilter
              THEN /\ stack' = [stack EXCEPT ![r] =
                          Append(SubSeq(st, 1, Len(st) - 1),
                                 Frame(nf.next, Len(log[r])))]
                   /\ log' = [log EXCEPT ![r] = Append(@, nf.next)]
                   /\ filterPos' = [filterPos EXCEPT ![r] = nf.pos]
              ELSE /\ stack' = [stack EXCEPT ![r] =
                          [SubSeq(st, 1, Len(st) - 1) EXCEPT ![Len(st) - 1] =
                              [@ EXCEPT !.last = ProceedResult(v)]]]
                   /\ UNCHANGED <<log, filterPos>>
    /\ UNCHANGED <<setupVars, probe, pathValues, bufferVars, Attributes, sseVars>>
    /\ UNCHANGED <<pc, request, built, Response>>

\* the running handler returns v; pass tells that v is the result of its
\* last Proceed() call ("return c.Proceed()").  The Proceed() call that
\* invoked the handler returns to the caller.
HandlerReturn(r, v, pass) ==
    /\ pc[r] = "serving"
    /\ LET st  == stack[r]
           top == Top(st)
       IN  /\ top.idx # Dispatcher
           /\ IF pass THEN top.ncalls > 0 /\ v = top.last
              ELSE v \in {NilError, OwnError(top.idx)}
           /\ stack' = [stack EXCEPT ![r] =
                  [SubSeq(st, 1, Len(st) - 1) EXCEPT ![Len(st) - 1] =
                      [@ EXCEPT !.last = ProceedResult(v)]]]
           /\ event' = [event EXCEPT ![r] =
                           [kind |-> "return", idx |-> top.idx, val |-> v,
                            pass |-> pass, ncalls |-> top.ncalls,
                            ran |-> Len(log[r]) - top.at - 1]]
           /\ prop' = [prop EXCEPT ![r] = IF pass THEN @ ELSE v]
    /\ UNCHANGED <<setupVars, probe, pathValues, bufferVars, Attributes, sseVars>>
    /\ UNCHANGED <<pc, request, built, filterPos, Response, log>>

\* the running handler calls the accessor MazeContext.CurrentFilter
GetCurrentFilter(r) ==
    /\ pc[r] = "serving"
    /\ Top(stack[r]).idx # Dispatcher
    /\ event' = [event EXCEPT ![r] =
                    [kind |-> "current", idx |-> Top(stack[r]).idx,
                     cur |-> CurrentFilter(filters, filterPos[r])]]
    /\ UNCHANGED <<setupVars, probe, pathValues, bufferVars, Attributes, sseVars>>
    /\ UNCHANGED <<pc, request, built, filterPos, stack, Response,
                   log, prop>>

\* what the handler of the filter at chain position i writes to the
\* response sink when it writes its body
Body(i) == [status |-> 200, body |-> <<"body of handler", i>>]

\* MazeContext.SetAttribute called by the running handler
SetAttribute(r, key, value) ==
    /\ pc[r] = "serving"
    /\ Top(stack[r]).idx # Dispatcher
    /\ Attributes[r][key] # value
    /\ Attributes' = [Attributes EXCEPT ![r][key] = value]
    /\ UNCHANGED sseVars
    /\ UNCHANGED <<setupVars, probe, pathValues, bufferVars>>
    /\ UNCHANGED <<pc, request, built, filterPos, stack, Response, log, event,
                   prop>>

\* MazeContext.GetAttribute called by the running handler
GetAttribute(r, key) ==
    /\ pc[r] = "serving"
    /\ Top(stack[r]).idx # Dispatcher
    /\ event' = [event EXCEPT ![r] =
                    [kind |-> "attribute", idx |-> Top(stack[r]).idx,
                     key |-> key, value |-> Attributes[r][key]]]
    /\ UNCHANGED <<setupVars, probe, pathValues, bufferVars, Attributes, sseVars>>
    /\ UNCHANGED <<pc, request, built, filterPos, stack, Response, log, prop>>

\* entries are written to the sink s of worker r: to the original sink
\* or to a buffer
WriteTo(r, s, entries) ==
    IF s = OriginalSink
    THEN /\ Response' = [Response EXCEPT ![r] = @ \o entries]
         /\ UNCHANGED buffers
    ELSE /\ buffers' = [buffers EXCEPT ![r][s] = @ \o entries]
         /\ UNCHANGED Response

\* entry e was written by worker r, to the original sink or to a buffer
Written(r, e) ==
    \/ \E n \in 1..Len(Response[r]) : Response[r][n] = e
    \/ \E i \in DOMAIN buffers[r] :
           \E n \in 1..Len(buffers[r][i]) : buffers[r][i][n] = e

\* the running handler writes its body (once in an invocation) to the
\* sink GetResponse() returns
HandlerWrite(r) ==
    /\ pc[r] = "serving"
    /\ LET top == Top(stack[r])
       IN  /\ top.idx # Dispatcher
           /\ ~Written(r, Body(top.idx))
           /\ WriteTo(r, sink[r], <<Body(top.idx)>>)
    /\ UNCHANGED <<setupVars, probe, pathValues, sink, saved, Attributes, sseVars>>
    /\ UNCHANGED <<pc, request, built, filterPos, stack, log, event, prop>>

\* mutant of Put: a key that is already in the map keeps its value
Put_KeepFirst(m, key, v) ==
    [keys |-> m.keys \cup {key},
     val  |-> [x \in m.keys \cup {key} |->
                  IF x \in m.keys THEN m.val[x] ELSE v]]

\* c.pathValues[key] = v
Put(m, key, v) ==
    [keys |-> m.keys \cup {key},
     val  |-> [x \in m.keys \cup {key} |-> IF x = key THEN v ELSE m.val[x]]]

\* mutant of Capture: the name keeps its ":"
RECURSIVE Capture_KeepColon(_, _, _, _)
Capture_KeepColon(template, parts, k, m) ==
    IF k > Len(template) THEN m
    ELSE Capture_KeepColon(template, parts, k + 1,
                           IF HasPrefix(template[k], <<":">>)
                           THEN Put(m, template[k], <<parts[k]>>)
                           ELSE m)

\* the loop of MazeContext.PathValues from template position k on: every
\* segment that starts with ":" stores the path segment at its position
\* under its name
RECURSIVE Capture(_, _, _, _)
Capture(template, parts, k, m) ==
    IF k > Len(template) THEN m
    ELSE Capture(template, parts, k + 1,
                 IF HasPrefix(template[k], <<":">>)
                 THEN Put(m, Tail(template[k]), <<parts[k]>>)
                 ELSE m)

\* the map MazeContext.PathValues computes from the template of the
\* current filter and the request path
PathValuesOf(template, path) ==
    LET parts == Split(path, "/")
    IN  IF Len(parts) = Len(template)
        THEN Capture(template, parts, 1, EmptyValues)
        ELSE EmptyValues

\* the running handler of worker r is a ResponseBuffer that has replaced the
\* sink and not yet returned
IsBufferFrame(r) ==
    /\ saved[r] # <<>>
    /\ Top(saved[r]).depth = Len(stack[r])

\* ResponseBuffer up to its call of Proceed(): the handler the cursor is on
\* is a ResponseBuffer; it makes a buffer rec, keeps the current sink in w,
\* makes rec the sink of the context and defers the restoration of w
BufferEnter(r) ==
    /\ pc[r] = "serving"
    /\ LET top == Top(stack[r])
       IN  /\ top.idx # Dispatcher
           /\ top.ncalls = 0
           /\ ~IsBufferFrame(r)
           /\ ~Written(r, Body(top.idx))
           /\ saved' = [saved EXCEPT ![r] =
                  Append(@, [depth |-> Len(stack[r]), idx |-> top.idx,
                             w |-> sink[r], flushed |-> FALSE])]
           /\ sink' = [sink EXCEPT ![r] = top.idx]
           /\ event' = [event EXCEPT ![r] =
                  [kind |-> "buffer", idx |-> top.idx, w |-> sink[r]]]
    /\ UNCHANGED <<setupVars, probe, pathValues, buffers, Attributes, sseVars>>
    /\ UNCHANGED <<pc, request, built, filterPos, stack, Response, log, prop>>

\* the deferred function of ResponseBuffer, run when the frame at the given
\* depth is left: c.SetResponse(w).  The sink after the frame is left.
Deferred(s, sv, depth) ==
    IF sv # <<>> /\ Top(sv).depth = depth THEN Top(sv).w ELSE s

\* the running ResponseBuffer invocations after the frame at the given depth
\* is left
Left(sv, depth) ==
    IF sv # <<>> /\ Top(sv).depth = depth THEN SubSeq(sv, 1, Len(sv) - 1)
    ELSE sv

\* mutant of BufferFlush: the buffer is flushed whatever Proceed() returned
BufferFlush_Always(r) ==
    /\ pc[r] = "serving"
    /\ IsBufferFrame(r)
    /\ LET top == Top(stack[r])
           b   == Top(saved[r])
       IN  /\ top.ncalls = 1
           /\ ~b.flushed
           /\ WriteTo(r, b.w, buffers[r][b.idx])
           /\ saved' = [saved EXCEPT ![r][Len(saved[r])].flushed = TRUE]
           /\ event' = [event EXCEPT ![r] =
                  [kind |-> "flush", idx |-> top.idx, err |-> top.last,
                   w |-> b.w]]
    /\ UNCHANGED <<setupVars, probe, pathValues, sink, Attributes, sseVars>>
    /\ UNCHANGED <<pc, request, built, filterPos, stack, log, prop>>

\* ResponseBuffer after its call of Proceed() has returned: the buffer is
\* flushed to w when Proceed() returned nil
BufferFlush(r) ==
    /\ pc[r] = "serving"
    /\ IsBufferFrame(r)
    /\ LET top == Top(stack[r])
           b   == Top(saved[r])
       IN  /\ top.ncalls = 1
           /\ ~b.flushed
           /\ IF top.last = NilError
              THEN WriteTo(r, b.w, buffers[r][b.idx])
              ELSE UNCHANGED <<Response, buffers>>
           /\ saved' = [saved EXCEPT ![r][Len(saved[r])].flushed = TRUE]
           /\ event' = [event EXCEPT ![r] =
                  [kind |-> "flush", idx |-> top.idx, err |-> top.last,
                   w |-> b.w]]
    /\ UNCHANGED <<setupVars, probe, pathValues, sink, Attributes, sseVars>>
    /\ UNCHANGED <<pc, request, built, filterPos, stack, log, prop>>

\* mutant of BufferReturn: the sink is restored only when Proceed() returned
\* nil
BufferReturn_RestoreOnSuccess(r) ==
    /\ pc[r] = "serving"
    /\ IsBufferFrame(r)
    /\ LET st  == stack[r]
           top == Top(st)
           b   == Top(saved[r])
           err == top.last
       IN  /\ top.ncalls = 1
           /\ b.flushed
           /\ sink' = [sink EXCEPT ![r] =
                  IF err = NilError THEN Deferred(@, saved[r], Len(st))
                  ELSE @]
           /\ saved' = [saved EXCEPT ![r] = Left(@, Len(st))]
           /\ stack' = [stack EXCEPT ![r] =
                  [SubSeq(st, 1, Len(st) - 1) EXCEPT ![Len(st) - 1] =
                      [@ EXCEPT !.last = ProceedResult(err)]]]
           /\ event' = [event EXCEPT ![r] =
                           [kind |-> "return", idx |-> top.idx, val |-> err,
                            pass |-> TRUE, ncalls |-> top.ncalls,
                            ran |-> Len(log[r]) - top.at - 1]]
    /\ UNCHANGED <<setupVars, probe, pathValues, Attributes, sseVars>>
    /\ UNCHANGED <<pc, request, built, filterPos, log, prop>>
    /\ UNCHANGED <<Response, buffers>>

\* ResponseBuffer returns the result of Proceed(), and the deferred function
\* restores w
BufferReturn(r) ==
    /\ pc[r] = "serving"
    /\ IsBufferFrame(r)
    /\ LET st  == stack[r]
           top == Top(st)
           b   == Top(saved[r])
           err == top.last
       IN  /\ top.ncalls = 1
           /\ b.flushed
           /\ sink' = [sink EXCEPT ![r] = Deferred(@, saved[r], Len(st))]
           /\ saved' = [saved EXCEPT ![r] = Left(@, Len(st))]
           /\ stack' = [stack EXCEPT ![r] =
                  [SubSeq(st, 1, Len(st) - 1) EXCEPT ![Len(st) - 1] =
                      [@ EXCEPT !.last = ProceedResult(err)]]]
           /\ event' = [event EXCEPT ![r] =
                           [kind |-> "return", idx |-> top.idx, val |-> err,
                            pass |-> TRUE, ncalls |-> top.ncalls,
                            ran |-> Len(log[r]) - top.at - 1]]
    /\ UNCHANGED <<setupVars, probe, pathValues, Attributes, sseVars>>
    /\ UNCHANGED <<pc, request, built, filterPos, log, prop>>
    /\ UNCHANGED <<Response, buffers>>

\* the running handler panics
HandlerPanic(r) ==
    /\ pc[r] = "serving"
    /\ Top(stack[r]).idx # Dispatcher
    /\ ~IsBufferFrame(r)
    /\ pc' = [pc EXCEPT ![r] = "panicking"]
    /\ event' = [event EXCEPT ![r] =
                    [kind |-> "panicking", idx |-> Top(stack[r]).idx]]
    /\ UNCHANGED <<setupVars, probe, pathValues, bufferVars, Attributes, sseVars>>
    /\ UNCHANGED <<request, built, filterPos, stack, Response, log, prop>>

\* the panic leaves the innermost running function: the deferred function
\* of a ResponseBuffer is run on the way.  Neither a handler nor ServeHTTP
\* recovers; past ServeHTTP the request is abandoned.
Unwind(r) ==
    /\ pc[r] = "panicking"
    /\ LET st  == stack[r]
           top == Top(st)
       IN  IF top.idx = Dispatcher
           THEN /\ pc' = [pc EXCEPT ![r] = "panic"]
                /\ stack' = [stack EXCEPT ![r] = <<>>]
                /\ event' = [event EXCEPT ![r] =
                                [kind |-> "panic", idx |-> Dispatcher]]
                /\ UNCHANGED <<sink, saved>>
           ELSE /\ stack' = [stack EXCEPT ![r] = SubSeq(st, 1, Len(st) - 1)]
                /\ sink' = [sink EXCEPT ![r] = Deferred(@, saved[r], Len(st))]
                /\ saved' = [saved EXCEPT ![r] = Left(@, Len(st))]
                /\ event' = [event EXCEPT ![r] =
                                [kind |-> "unwind", idx |-> top.idx,
                                 restored |-> IsBufferFrame(r)]]
                /\ UNCHANGED pc
    /\ UNCHANGED <<setupVars, probe, pathValues, buffers, Attributes, sseVars>>
    /\ UNCHANGED <<request, built, filterPos, Response, log, prop>>

\* mutant of GetPathValues: the parameter markers are stripped from the
\* template of the current filter itself
GetPathValues_StripTemplate(r) ==
    /\ pc[r] = "serving"
    /\ LET top == Top(stack[r])
           cur == CurrentFilter(filters, filterPos[r])
       IN  /\ top.idx # Dispatcher
           /\ IF ~pathValues[r].isNil
              THEN /\ event' = [event EXCEPT ![r] =
                          [kind |-> "pathValues", idx |-> top.idx,
                           cur |-> cur, cached |-> TRUE,
                           ncalls |-> top.ncalls,
                           vals |-> pathValues[r].map]]
                   /\ UNCHANGED <<pathValues, pc, stack, filters>>
              ELSE IF cur = NoFilter
              THEN /\ event' = [event EXCEPT ![r] =
                          [kind |-> "panic", idx |-> top.idx]]
                   /\ pc' = [pc EXCEPT ![r] = "panic"]
                   /\ stack' = [stack EXCEPT ![r] = <<>>]
                   /\ UNCHANGED <<pathValues, filters>>
              ELSE LET m == PathValuesOf(At(filters, cur).template,
                                         request[r].Path)
                   IN  /\ pathValues' = [pathValues EXCEPT ![r] =
                              [isNil |-> FALSE, map |-> m]]
                       /\ filters' = [filters EXCEPT ![cur + 1].template =
                              [k \in DOMAIN @ |->
                                  IF HasPrefix(@[k], <<":">>)
                                  THEN SubSeq(@[k], 2, Len(@[k])) ELSE @[k]]]
                       /\ event' = [event EXCEPT ![r] =
                              [kind |-> "pathValues", idx |-> top.idx,
                               cur |-> cur, cached |-> FALSE,
                               ncalls |-> top.ncalls, vals |-> m]]
                       /\ UNCHANGED <<pc, stack>>
    /\ UNCHANGED <<lastRule, contextFactory, regs, serving, workers, pushed>>
    /\ UNCHANGED <<probe, bufferVars, Attributes, sseVars>>
    /\ UNCHANGED <<request, built, filterPos, Response, log, prop>>

\* the running handler calls MazeContext.PathValues: the cached map is
\* returned when there is one; otherwise the map is computed from the
\* current filter and cached.  Without a current filter the nil filter is
\* dereferenced: the call panics and the request is abandoned.
GetPathValues(r) ==
    /\ pc[r] = "serving"
    /\ LET top == Top(stack[r])
           cur == CurrentFilter(filters, filterPos[r])
       IN  /\ top.idx # Dispatcher
           /\ IF ~pathValues[r].isNil
              THEN /\ event' = [event EXCEPT ![r] =
                          [kind |-> "pathValues", idx |-> top.idx,
                           cur |-> cur, cached |-> TRUE,
                           ncalls |-> top.ncalls,
                           vals |-> pathValues[r].map]]
                   /\ UNCHANGED <<pathValues, pc, stack>>
              ELSE IF cur = NoFilter
              THEN /\ event' = [event EXCEPT ![r] =
                          [kind |-> "panic", idx |-> top.idx]]
                   /\ pc' = [pc EXCEPT ![r] = "panic"]
                   /\ stack' = [stack EXCEPT ![r] = <<>>]
                   /\ UNCHANGED pathValues
              ELSE LET m == PathValuesOf(At(filters, cur).template,
                                         request[r].Path)
                   IN  /\ pathValues' = [pathValues EXCEPT ![r] =
                              [isNil |-> FALSE, map |-> m]]
                       /\ event' = [event EXCEPT ![r] =
                              [kind |-> "pathValues", idx |-> top.idx,
                               cur |-> cur, cached |-> FALSE,
                               ncalls |-> top.ncalls, vals |-> m]]
                       /\ UNCHANGED <<pc, stack>>
    /\ UNCHANGED <<setupVars, probe, bufferVars, Attributes, sseVars>>
    /\ UNCHANGED <<request, built, filterPos, Response, log, prop>>

\* mutant of ServeHTTPReturn: the test of the error is inverted
ServeHTTPReturn_Inverted(r) ==
    /\ pc[r] = "serving"
    /\ LET top == Top(stack[r])
       IN  /\ Len(stack[r]) = 1
           /\ top.idx = Dispatcher
           /\ top.ncalls = 1
           /\ Response' = [Response EXCEPT ![r] =
                  IF top.last = NilError
                  THEN Append(@, HttpError(ErrorMsg(top.last), 500))
                  ELSE @]
    /\ pc' = [pc EXCEPT ![r] = "done"]
    /\ UNCHANGED <<setupVars, probe, pathValues, bufferVars, Attributes, sseVars>>
    /\ UNCHANGED <<request, built, filterPos, stack, log, event,
                   prop>>

\* Maze.ServeHTTP after ctx.Proceed() has returned
ServeHTTPReturn(r) ==
    /\ pc[r] = "serving"
    /\ LET top == Top(stack[r])
       IN  /\ Len(stack[r]) = 1
           /\ top.idx = Dispatcher
           /\ top.ncalls = 1
           /\ Response' = [Response EXCEPT ![r] =
                  IF top.last # NilError
                  THEN Append(@, HttpError(ErrorMsg(top.last), 500))
                  ELSE @]
    /\ pc' = [pc EXCEPT ![r] = "done"]
    /\ UNCHANGED <<setupVars, probe, pathValues, bufferVars, Attributes, sseVars>>
    /\ UNCHANGED <<request, built, filterPos, stack, log, event,
                   prop>>

NextStep ==
    \/ /\ ~serving
       /\ regs + 1 \in RegIds
       /\ \E methods \in MethodSets, rule \in Rules, k \in 0..MaxHandlers :
              \* without handlers the methods are not looked at
              /\ k = 0 => methods = NilMethods
              /\ PushMethod(methods, rule, k)
    \/ ListenAndServe
    \/ /\ serving
       /\ \E r \in workers, method \in Methods, path \in Paths :
              ServeHTTP(r, method, path)
    \/ \E r \in ReqIds : Proceed(r)
    \/ \E r \in workers :
           /\ pc[r] = "serving"
           /\ \E pass \in BOOLEAN,
                 v \in {NilError} \cup
                       {OwnError(i) : i \in 0..(Len(filters) - 1)} :
                  HandlerReturn(r, v, pass)
    \/ \E r \in ReqIds : ServeHTTPReturn(r)

Spec == Init /\ [][NextStep]_vars

----------------------------------------------------------------------------
(* The scenarios: handlers that write and that read the path values        *)

\* the patterns and the request paths of the scenarios
RuleHello  == <<"/", "h", "e", "l", "l", "o">>
RuleTwice  == <<"/", ":", "i", "d", "/", ":", "i", "d">>
PathSayHi  == <<"/", "g", "r", "e", "e", "t", "/", "s", "a", "y", "h", "i", "/", "4", "2">>
PathTwice  == <<"/", "1", "/", "2">>
PathRoot   == <<"/">>

ScenarioRules == {RuleHello, RuleGreet, RuleSayHi, RuleTwice, EmptyStr}
ScenarioPaths == {RuleHello, PathSayHi, PathTwice, PathRoot}

NextScenario ==
    \/ \E methods \in MethodSets, rule \in ScenarioRules :
           /\ regs + 1 \in RegIds
           /\ PushMethod(methods, rule, 1)
    \/ /\ regs + 1 \in RegIds
       /\ Add(EmptyStr)
    \/ ListenAndServe
    \/ \E r \in ReqIds, method \in Methods, path \in ScenarioPaths :
           ServeHTTP(r, method, path)
    \/ \E r \in ReqIds : Proceed(r)
    \/ \E r \in ReqIds, pass \in BOOLEAN,
          v \in {NilError} \cup {OwnError(i) : i \in 0..(Len(filters) - 1)} :
           HandlerReturn(r, v, pass)
    \/ \E r \in ReqIds : HandlerWrite(r)
    \/ \E r \in ReqIds : GetPathValues(r)
    \/ \E r \in ReqIds : ServeHTTPReturn(r)

SpecScenario == Init /\ [][NextScenario]_vars

----------------------------------------------------------------------------
(* Registration alone: the rule concatenation of PushMethod                *)

\* the registration calls of this specification
PushIds == {1, 2, 3}

\* the patterns handed to PushMethod: two group rules, an absolute rule,
\* relative rules (a template, the empty rule, one ending with the
\* wildcard) and a rule starting with the wildcard
PushRules == {RuleGreet, RuleAll, RuleQ, RuleSayHi, EmptyStr, RuleRStar,
              RuleStarS}

NextPush ==
    \/ \E methods \in MethodSets, rule \in PushRules, k \in 0..MaxHandlers :
           /\ k = 0 => methods = NilMethods
           /\ regs + 1 \in PushIds
           /\ PushMethod(methods, rule, k)
    \/ \E rule \in {EmptyStr, RuleQ} :
           /\ regs + 1 \in PushIds
           /\ Add(rule)

SpecPush == Init /\ [][NextPush]_vars

----------------------------------------------------------------------------
(* Matching alone: Filter.setRule and Filter.IsValid                       *)

\* the patterns and paths of the matching examples
RuleTemplate  == <<"/", "a", "/", ":", "x", "/", "b">>
RuleJs        == <<"*", ".", "j", "s">>
RuleStatic    == <<"/", "s", "t", "a", "t", "i", "c", "/", "*">>
PathTooLong   == <<"/", "a", "/", "1", "/", "2", "/", "b">>
PathFits      == <<"/", "a", "/", "1", "/", "b">>
PathStaticJs  == <<"/", "s", "t", "a", "t", "i", "c", "/", "a", "p", "p", ".", "j", "s">>
PathJs        == <<"/", "a", "p", "p", ".", "j", "s">>
PathJsExtra   == <<"/", "a", "p", "p", ".", "j", "s", "/", "e", "x", "t", "r", "a">>
PathStatic    == <<"/", "s", "t", "a", "t", "i", "c", "/">>
PathStaticAB  == <<"/", "s", "t", "a", "t", "i", "c", "/", "a", "/", "b">>
PathStat      == <<"/", "s", "t", "a", "t">>
PathColon     == <<"/", ":", "a">>

\* the patterns compiled: every string over the characters that setRule
\* looks for, and the examples
RuleChars == {"/", "a", ":", "*"}
MatchRules ==
    Strings(RuleChars, MaxRuleLen) \cup {RuleTemplate, RuleJs, RuleStatic}

\* the request paths: every short string over two characters, and the
\* examples
PathChars == {"/", "a"}
MatchPaths ==
    Strings(PathChars, MaxPathLen) \cup
        {PathTooLong, PathFits, PathStaticJs, PathJs, PathJsExtra, PathStatic,
         PathStaticAB, PathStat, PathColon}

\* the allowed methods (nil, an empty list, GET, POST, both) and the
\* request methods (the empty method included)
MatchMethodSets ==
    {NilMethods, <<>>, <<"GET">>, <<"POST">>, <<"GET", "POST">>}
MatchMethods == {"GET", "POST", ""}

\* Filter.IsValid applied to the filter at chain position i and a request
Match(i, method, path) ==
    /\ i \in 0..(Len(filters) - 1)
    /\ LET req == [Method |-> method, Path |-> path]
       IN  probe' = [made |-> TRUE, filter |-> i, request |-> req,
                     valid |-> IsValid(At(filters, i), req)]
    /\ UNCHANGED <<setupVars, pc, request, built, filterPos, stack, Response,
                   log, event, prop, pathValues, bufferVars, Attributes, sseVars>>

NextMatch ==
    \/ /\ regs = 0
       /\ \E methods \in MatchMethodSets, rule \in MatchRules :
              PushMethod(methods, rule, 1)
    \/ /\ regs = 0
       /\ \E rule \in MatchRules : Add(rule)
    \/ \* one application in a behaviour
       /\ ~probe.made
       /\ \E i \in 0..(MaxFilters - 1), method \in MatchMethods,
             path \in MatchPaths :
              Match(i, method, path)

\* NewMaze() without a context factory
InitMatch == Init /\ contextFactory = "nil"

SpecMatch == InitMatch /\ [][NextMatch]_vars

----------------------------------------------------------------------------
(* Two requests served concurrently over one chain                         *)

PathTwiceB == <<"/", "3", "/", "4">>

ConcurrentRules == {RuleTwice, RuleHello}

\* the path worker r is asked for
PathOf(r) == IF r = 1 THEN PathTwice ELSE PathTwiceB

\* the user the handlers of the request of worker r keep in its attributes
UserOf(r) == IF r = 1 THEN "u" ELSE "v"

\* net/http runs ServeHTTP of every request in a goroutine of its own
InitConcurrent ==
    /\ InitMaze
    /\ contextFactory = "nil"
    /\ workers = ReqIds
    /\ InitWorkers
    /\ probe = NoProbe
    /\ InitBroker

NextConcurrent ==
    \/ \E rule \in ConcurrentRules :
           /\ regs + 1 \in RegIds
           /\ PushMethod(NilMethods, rule, 1)
    \/ /\ regs = 0
       /\ Add(EmptyStr)
    \/ /\ regs > 0
       /\ ListenAndServe
    \/ \E r \in ReqIds :
           /\ pc[r] = "idle"
           /\ ServeHTTP(r, "GET", PathOf(r))
    \/ \E r \in ReqIds : Proceed(r)
    \/ \E r \in ReqIds : HandlerReturn(r, NilError, FALSE)
    \/ \E r \in ReqIds : GetPathValues(r)
    \/ \E r \in ReqIds : SetAttribute(r, "user", UserOf(r))
    \/ \E r \in ReqIds : GetAttribute(r, "user")
    \/ \E r \in ReqIds : ServeHTTPReturn(r)

SpecConcurrent == InitConcurrent /\ [][NextConcurrent]_vars

----------------------------------------------------------------------------
(* Chains with ResponseBuffer filters                                      *)

BufferRules == {RuleA, RuleB}

NextBuffer ==
    \/ \E rule \in BufferRules, k \in 1..MaxHandlers :
           /\ regs + 1 \in RegIds
           /\ PushMethod(NilMethods, rule, k)
    \/ /\ regs > 0
       /\ ListenAndServe
    \/ \E r \in ReqIds : ServeHTTP(r, "GET", RuleA)
    \/ \E r \in ReqIds : BufferEnter(r)
    \/ \E r \in ReqIds :
           \* a ResponseBuffer calls Proceed() once
           /\ IsBufferFrame(r) => Top(stack[r]).ncalls = 0
           /\ Proceed(r)
    \/ \E r \in ReqIds : BufferFlush(r)
    \/ \E r \in ReqIds : BufferReturn(r)
    \/ \E r \in ReqIds, pass \in BOOLEAN,
          v \in {NilError} \cup {OwnError(i) : i \in 0..(Len(filters) - 1)} :
           /\ ~IsBufferFrame(r)
           /\ HandlerReturn(r, v, pass)
    \/ \E r \in ReqIds :
           /\ ~IsBufferFrame(r)
           /\ HandlerWrite(r)
    \/ \E r \in ReqIds : HandlerPanic(r)
    \/ \E r \in ReqIds : Unwind(r)
    \/ \E r \in ReqIds : ServeHTTPReturn(r)

SpecBuffer == InitMatch /\ [][NextBuffer]_vars

----------------------------------------------------------------------------
(* The JSON-RPC service: JsonRpc.Build, registered with Maze.Add           *)

\* the names of the exposed actions, and JsonRpc.servicePath: NewJsonRpc
\* takes it from the Name() of a pointer type, which is empty
ActionX     == <<"x">>
ActionY     == <<"y">>
ServiceName == EmptyStr
RuleJ       == <<"/", "j">>
RelJ        == <<"j">>

\* the prefix of the rules of a service
ServicePrefix(servicePath) ==
    (IF servicePath = EmptyStr THEN ServiceName ELSE servicePath) \o <<"/">>

\* the filters of one action: its own filters, then the filter that calls
\* the service method
ActionChain(a) == ConvertHandlers(a.handlers) \o <<ZeroFilter(a.call)>>

\* mutant of BuildActions: the rule is set on the filter that calls the
\* service method
RECURSIVE BuildActions_RuleOnCall(_, _)
BuildActions_RuleOnCall(prefix, actions) ==
    IF actions = <<>> THEN <<>>
    ELSE LET f == ActionChain(Head(actions))
         IN  [f EXCEPT ![Len(f)] =
                 setRule(f[Len(f)], NilMethods, prefix \o Head(actions).name)]
             \o BuildActions_RuleOnCall(prefix, Tail(actions))

\* the loop of JsonRpc.Build over the actions: the rule of an action is
\* set on the first of its filters
RECURSIVE BuildActions(_, _)
BuildActions(prefix, actions) ==
    IF actions = <<>> THEN <<>>
    ELSE LET f == ActionChain(Head(actions))
         IN  [f EXCEPT ![1] =
                 setRule(f[1], NilMethods, prefix \o Head(actions).name)]
             \o BuildActions(prefix, Tail(actions))

\* JsonRpc.Build: the filters of the service under prefix + "*", the
\* filters of the actions, the guard under prefix + "*"
Build(servicePath, svc, actions, guard) ==
    LET prefix == ServicePrefix(servicePath)
        own    == IF Len(svc) > 0
                  THEN [ConvertHandlers(svc) EXCEPT ![1] =
                           setRule(@, NilMethods, prefix \o WILDCARD)]
                  ELSE <<>>
    IN  own \o BuildActions(prefix, actions)
            \o <<NewFilter(prefix \o WILDCARD, guard)>>

\* the handlers <<n, from + 1>> .. <<n, from + count>>
HandlerIds(n, from, count) == [j \in 1..count |-> <<n, from + j>>]

\* the actions of a service whose handlers are numbered from `from` on:
\* names holds the action names, own the number of filters of each
RECURSIVE ActionsOf(_, _, _, _)
ActionsOf(n, from, names, own) ==
    IF names = <<>> THEN <<>>
    ELSE <<[name     |-> Head(names),
            handlers |-> HandlerIds(n, from, Head(own)),
            call     |-> <<n, from + Head(own) + 1>>]>>
         \o ActionsOf(n, from + Head(own) + 1, Tail(names), Tail(own))

RECURSIVE Sum(_)
Sum(q) == IF q = <<>> THEN 0 ELSE Head(q) + Sum(Tail(q))

\* mz.Add(rpc.Build(servicePath)...): the service has ns filters of its
\* own and the actions names, the i-th with own[i] filters of its own
AddBuilt(servicePath, ns, names, own) ==
    LET n     == regs + 1
        total == ns + Sum(own) + Len(names) + 1
        fs    == Build(servicePath, HandlerIds(n, 0, ns),
                       ActionsOf(n, ns, names, own), <<n, total>>)
    IN  /\ ~serving
        /\ Len(filters) + total <= MaxFilters
        /\ regs' = regs + 1
        /\ filters' = filters \o fs
        /\ pushed' = Append(pushed, [op |-> "Build", methods |-> NilMethods,
                                     rule |-> servicePath, k |-> total,
                                     compiled |-> ServicePrefix(servicePath),
                                     at |-> Len(filters), ns |-> ns,
                                     names |-> names, own |-> own])
        /\ UNCHANGED <<lastRule, contextFactory, serving, workers, pc,
                       request, built, filterPos, stack, Response, log,
                       event, prop, pathValues, probe, sink, buffers, saved,
                       Attributes, sseVars>>

\* the services registered: one or two actions, in the order of their names
ServicePaths == {RuleJ, RelJ, EmptyStr}
ActionNames  == {<<ActionX>>, <<ActionY>>, <<ActionX, ActionY>>}

NextRpc ==
    \/ \E rule \in {RuleGreet, RuleQ}, k \in 0..1 :
           /\ regs + 1 \in RegIds
           /\ PushMethod(NilMethods, rule, k)
    \/ /\ regs + 1 \in RegIds
       /\ \E servicePath \in ServicePaths, ns \in 0..1,
             names \in ActionNames :
              \E own \in [1..Len(names) -> 0..1] :
                  AddBuilt(servicePath, ns, names, own)

SpecRpc == InitMatch /\ [][NextRpc]_vars

----------------------------------------------------------------------------
(* Termination: handlers that return, requests that are answered           *)

\* the patterns registered: two routes and the wildcard alone
TerminateRules == {RuleA, RuleB, StarRule}

NextTerminate ==
    \/ \E rule \in TerminateRules, k \in 1..MaxHandlers :
           /\ regs + 1 \in RegIds
           /\ PushMethod(NilMethods, rule, k)
    \/ /\ regs > 0
       /\ ListenAndServe
    \/ \E r \in ReqIds, path \in BufferRules : ServeHTTP(r, "GET", path)
    \/ \E r \in ReqIds : Proceed(r)
    \/ \E r \in ReqIds, pass \in BOOLEAN,
          v \in {NilError} \cup {OwnError(i) : i \in 0..(Len(filters) - 1)} :
           HandlerReturn(r, v, pass)
    \/ \E r \in ReqIds : GetCurrentFilter(r)
    \/ \E r \in ReqIds : ServeHTTPReturn(r)

\* ServeHTTP calls Proceed() and returns when it has the result; a handler
\* that was invoked returns, after the Proceed() calls it chose to make
Terminating(r) ==
    /\ WF_vars(pc[r] = "serving" /\ Top(stack[r]).idx = Dispatcher
               /\ Proceed(r))
    /\ WF_vars(\E pass \in BOOLEAN,
                  v \in {NilError} \cup {OwnError(i) : i \in 0..(MaxFilters - 1)} :
                   HandlerReturn(r, v, pass))
    /\ WF_vars(ServeHTTPReturn(r))

SpecTerminate ==
    InitMatch /\ [][NextTerminate]_vars /\ \A r \in ReqIds : Terminating(r)

----------------------------------------------------------------------------
(* The broker of server-sent events: SseBroker.Send, SseBroker.Serve       *)

\* the bytes of an encoded event: the one of OnConnect, one handed to Send
OnConnectEvent == "connect"
SentEvent      == "event"

\* the goroutine p is at `at` and the program has not panicked
AtSse(p, at) == ssePanic = "none" /\ ssePc[p] = at

\* Serve up to the call of subscribe: the channel is made and, when
\* OnConnect is set and returns no error, its event is put in the channel
ServeStart(c, onConnect) ==
    /\ AtSse(ServeOf(c), "idle")
    /\ chans' = [chans EXCEPT ![c] =
           [MakeChan EXCEPT !.buf =
               IF onConnect THEN <<OnConnectEvent>> ELSE <<>>]]
    /\ ssePc' = [ssePc EXCEPT ![ServeOf(c)] = "subscribe"]
    /\ UNCHANGED <<mazeVars, mutex, subscribers, todo, ssePanic>>

\* SseBroker.subscribe, called by Serve, which then registers the deferred
\* unsubscribe and starts the goroutine that waits for the close
\* notification
subscribe(c) ==
    /\ AtSse(ServeOf(c), "subscribe")
    /\ mutex = Unlocked
    /\ subscribers' = subscribers \cup {c}
    /\ ssePc' = [ssePc EXCEPT ![ServeOf(c)] = "range",
                              ![NotifyOf(c)] = "notify"]
    /\ UNCHANGED <<mazeVars, mutex, chans, todo, ssePanic>>

\* "for b := range sub": an event is taken from the channel, or the loop
\* ends because the channel is closed and empty; on an open and empty
\* channel the loop waits
ServeReceive(c) ==
    /\ AtSse(ServeOf(c), "range")
    /\ IF chans[c].buf # <<>>
       THEN /\ chans' = [chans EXCEPT ![c].buf = Tail(@)]
            /\ ssePc' = [ssePc EXCEPT ![ServeOf(c)] = "write"]
       ELSE /\ chans[c].closed
            /\ ssePc' = [ssePc EXCEPT ![ServeOf(c)] = "lock"]
            /\ UNCHANGED chans
    /\ UNCHANGED <<mazeVars, mutex, subscribers, todo, ssePanic>>

\* w.Write(b): after an error Serve returns, which runs the deferred
\* unsubscribe; otherwise the loop goes on
ServeWrite(c, ok) ==
    /\ AtSse(ServeOf(c), "write")
    /\ ssePc' = [ssePc EXCEPT ![ServeOf(c)] = IF ok THEN "range" ELSE "lock"]
    /\ UNCHANGED <<mazeVars, mutex, subscribers, chans, todo, ssePanic>>

\* "<-notify": the client went away, the goroutine calls unsubscribe
CloseNotify(c) ==
    /\ AtSse(NotifyOf(c), "notify")
    /\ ssePc' = [ssePc EXCEPT ![NotifyOf(c)] = "lock"]
    /\ UNCHANGED <<mazeVars, mutex, subscribers, chans, todo, ssePanic>>

\* the goroutines of client c that call unsubscribe
Unsubscribers(c) == {ServeOf(c), NotifyOf(c)}

\* SseBroker.unsubscribe: s.Lock()
unsubscribeLock(p) ==
    /\ AtSse(p, "lock")
    /\ p[1] \in {"serve", "notify"}
    /\ mutex = Unlocked
    /\ mutex' = p
    /\ ssePc' = [ssePc EXCEPT ![p] = "test"]
    /\ UNCHANGED <<mazeVars, subscribers, chans, todo, ssePanic>>

\* mutant of unsubscribeDelete: no test of s.subscribers[c]
unsubscribeDelete_NoTest(p) ==
    /\ AtSse(p, "test")
    /\ subscribers' = subscribers \ {p[2]}
    /\ ssePc' = [ssePc EXCEPT ![p] = "close"]
    /\ UNCHANGED <<mazeVars, mutex, chans, todo, ssePanic>>

\* SseBroker.unsubscribe: "if s.subscribers[c] { delete(s.subscribers, c)"
unsubscribeDelete(p) ==
    /\ AtSse(p, "test")
    /\ IF p[2] \in subscribers
       THEN /\ subscribers' = subscribers \ {p[2]}
            /\ ssePc' = [ssePc EXCEPT ![p] = "close"]
       ELSE /\ ssePc' = [ssePc EXCEPT ![p] = "unlock"]
            /\ UNCHANGED subscribers
    /\ UNCHANGED <<mazeVars, mutex, chans, todo, ssePanic>>

\* SseBroker.unsubscribe: close(c); closing a closed channel panics
unsubscribeClose(p) ==
    /\ AtSse(p, "close")
    /\ IF chans[p[2]].closed
       THEN /\ ssePanic' = "close of closed channel"
            /\ UNCHANGED <<chans, ssePc>>
       ELSE /\ chans' = [chans EXCEPT ![p[2]].closed = TRUE,
                                      ![p[2]].closes = @ + 1]
            /\ ssePc' = [ssePc EXCEPT ![p] = "unlock"]
            /\ UNCHANGED ssePanic
    /\ UNCHANGED <<mazeVars, mutex, subscribers, todo>>

\* SseBroker.unsubscribe: s.Unlock()
unsubscribeUnlock(p) ==
    /\ AtSse(p, "unlock")
    /\ p[1] \in {"serve", "notify"}
    /\ mutex' = Unlocked
    /\ ssePc' = [ssePc EXCEPT ![p] = "done"]
    /\ UNCHANGED <<mazeVars, subscribers, chans, todo, ssePanic>>

\* SseBroker.Send is called: the event is encoded
Send(s) ==
    /\ AtSse(SendOf(s), "idle")
    /\ ssePc' = [ssePc EXCEPT ![SendOf(s)] = "lock"]
    /\ UNCHANGED <<mazeVars, mutex, subscribers, chans, todo, ssePanic>>

\* Send: s.Lock(), and the range over the subscribers begins
SendLock(s) ==
    /\ AtSse(SendOf(s), "lock")
    /\ mutex = Unlocked
    /\ mutex' = SendOf(s)
    /\ todo' = [todo EXCEPT ![s] = subscribers]
    /\ ssePc' = [ssePc EXCEPT ![SendOf(s)] = "range"]
    /\ UNCHANGED <<mazeVars, subscribers, chans, ssePanic>>

\* Send: "c <- b" for one of the subscribers left (a map is ranged over in
\* no fixed order); the send waits while the channel is full, and a send
\* on a closed channel panics
SendTo(s, c) ==
    /\ AtSse(SendOf(s), "range")
    /\ c \in todo[s]
    /\ IF chans[c].closed
       THEN /\ ssePanic' = "send on closed channel"
            /\ UNCHANGED <<chans, todo>>
       ELSE /\ Len(chans[c].buf) < ChanCap
            /\ chans' = [chans EXCEPT ![c].buf = Append(@, SentEvent)]
            /\ todo' = [todo EXCEPT ![s] = @ \ {c}]
            /\ UNCHANGED ssePanic
    /\ UNCHANGED <<mazeVars, mutex, subscribers, ssePc>>

\* Send: the range is over, s.Unlock() and return
SendUnlock(s) ==
    /\ AtSse(SendOf(s), "range")
    /\ todo[s] = {}
    /\ mutex' = Unlocked
    /\ ssePc' = [ssePc EXCEPT ![SendOf(s)] = "idle"]
    /\ UNCHANGED <<mazeVars, subscribers, chans, todo, ssePanic>>

\* the steps of the goroutines of client c, the arrival of its request and
\* of its close notification aside
ServeStep(c) ==
    \/ ServeReceive(c)
    \/ \E ok \in BOOLEAN : ServeWrite(c, ok)

\* the steps of unsubscribe once it holds the lock
unsubscribeStep(p) ==
    \/ unsubscribeDelete(p)
    \/ unsubscribeClose(p)
    \/ unsubscribeUnlock(p)

NextSse ==
    \/ \E c \in Clients, onConnect \in BOOLEAN : ServeStart(c, onConnect)
    \/ \E c \in Clients : subscribe(c)
    \/ \E c \in Clients : ServeReceive(c)
    \/ \E c \in Clients, ok \in BOOLEAN : ServeWrite(c, ok)
    \/ \E c \in Clients : CloseNotify(c)
    \/ \E c \in Clients : \E p \in Unsubscribers(c) : unsubscribeLock(p)
    \/ \E c \in Clients : \E p \in Unsubscribers(c) : unsubscribeDelete(p)
    \/ \E c \in Clients : \E p \in Unsubscribers(c) : unsubscribeClose(p)
    \/ \E c \in Clients : \E p \in Unsubscribers(c) : unsubscribeUnlock(p)
    \/ \E s \in Senders : Send(s)
    \/ \E s \in Senders : SendLock(s)
    \/ \E s \in Senders, c \in Clients : SendTo(s, c)
    \/ \E s \in Senders : SendUnlock(s)

SpecSse == InitMatch /\ [][NextSse]_vars

\* the scheduler runs every goroutine that can take a step, and a goroutine
\* waiting for the lock gets it if the lock is released again and again;
\* requests, close notifications and Send calls arrive or do not
FairSse ==
    /\ \A c \in Clients :
           /\ SF_vars(subscribe(c))
           /\ WF_vars(ServeStep(c))
           /\ \A p \in Unsubscribers(c) :
                  /\ SF_vars(unsubscribeLock(p))
                  /\ WF_vars(unsubscribeStep(p))
    /\ \A s \in Senders :
           /\ SF_vars(SendLock(s))
           /\ WF_vars(\E c \in Clients : SendTo(s, c))
           /\ WF_vars(SendUnlock(s))

SpecSseFair == SpecSse /\ FairSse

TypeOK ==
    /\ regs \in {0} \cup RegIds \cup PushIds
    /\ \A r \in ReqIds :
           pc[r] \in {"idle", "serving", "done", "panic", "panicking"}

----------------------------------------------------------------------------
(* Helpers of the properties                                               *)

IsCall(r)   == event[r].kind = "call"
IsReturn(r) == event[r].kind = "return"

\* the least element of a non-empty set of integers
Min(S) == CHOOSE x \in S : \A y \in S : x <= y

\* the positions from p on
From(p) == {i \in 0..(Len(filters) - 1) : i >= p}

Ruleless(f) == f.route = EmptyStr

\* The guards as Section 4.3 of the specification reads them: a ruleless
\* filter is filtered neither by method nor by path
GuardsHold(f, req) ==
    Ruleless(f) \/ (MethodGuard(f, req) /\ PathGuard(f, req))

\* C1 as stated: the lowest position at or after the advanced cursor whose
\* guards hold (NoFilter when there is none)
LowestMatching(p, req) ==
    LET S == {i \in From(p) : GuardsHold(At(filters, i), req)}
    IN  IF S = {} THEN NoFilter ELSE Min(S)

\* C1 as amended: a ruleless filter counts only at the advanced cursor
\* itself; behind it only rule-bearing filters whose guards hold count
LowestSelectable(p, req) ==
    IF p >= Len(filters) THEN NoFilter
    ELSE IF Ruleless(At(filters, p)) THEN p
    ELSE LET S == {i \in From(p) :
                      /\ ~Ruleless(At(filters, i))
                      /\ MethodGuard(At(filters, i), req)
                      /\ PathGuard(At(filters, i), req)}
         IN  IF S = {} THEN NoFilter ELSE Min(S)

----------------------------------------------------------------------------
(* C1 *)

\* C1 (original statement): the filter whose handler a Proceed() call
\* invokes is the lowest-index filter at or after the advanced cursor whose
\* method guard and path guard both hold.
C1_Original ==
    \A r \in ReqIds :
        (IsCall(r) /\ event[r].run # NoFilter) =>
            event[r].run = LowestMatching(event[r].from + 1, request[r])

\* C1 (amended): the filter whose handler a Proceed() call invokes is the
\* filter at the advanced cursor when that filter is ruleless, and otherwise
\* the lowest-index rule-bearing filter at or after the advanced cursor
\* whose method guard and path guard both hold; the forward scan passes over
\* ruleless filters.
C1_Amended ==
    \A r \in ReqIds :
        IsCall(r) =>
            event[r].run = LowestSelectable(event[r].from + 1, request[r])

\* a Proceed() call whose scan passed over a ruleless filter and a
\* rule-bearing one and invoked a later filter
C1_Witness ==
    \E r \in ReqIds :
        /\ IsCall(r)
        /\ event[r].run > event[r].from + 2
        /\ \E i \in (event[r].from + 1)..(event[r].run - 1) :
              Ruleless(At(filters, i))

----------------------------------------------------------------------------
(* C2 *)

\* C2: in every reachable state of a request context -1 <= cursor <= chain
\* length; no step of the request (Proceed, a nested Proceed, an accessor, a
\* handler return) decreases the cursor, and once the cursor equals the
\* chain length it stays equal to it.
C2_CursorMonotonic ==
    /\ [](\A r \in ReqIds : filterPos[r] \in -1..Len(filters))
    /\ [][\A r \in ReqIds :
             pc[r] = "serving" =>
                 /\ filterPos'[r] >= filterPos[r]
                 /\ filterPos[r] = Len(filters) =>
                        filterPos'[r] = Len(filters)]_vars

\* Proceed() was called with the cursor already at the chain length, and the
\* cursor is still there
C2_Witness ==
    \E r \in ReqIds :
        /\ IsCall(r)
        /\ event[r].from = Len(filters)
        /\ filterPos[r] = Len(filters)
        /\ Len(filters) > 0

----------------------------------------------------------------------------
(* C3 *)

\* C3: Proceed() called on an Exhausted context (cursor = chain length)
\* returns nil, invokes no handler and leaves the cursor unchanged, also when
\* it is repeated.
C3_ExhaustedIdempotent ==
    \A r \in ReqIds :
        (IsCall(r) /\ event[r].from = Len(filters)) =>
            /\ event[r].run = NoFilter
            /\ event[r].pos = event[r].from
            /\ filterPos[r] = event[r].from
            /\ Len(log[r]) = event[r].logLen
            /\ Top(stack[r]).idx = event[r].caller
            /\ Top(stack[r]).last = NilError

\* the handler of the last filter has called Proceed() three times: the
\* first call exhausted the context, the second and this third one were made
\* on the Exhausted context
C3_Witness ==
    \E r \in ReqIds :
        /\ IsCall(r)
        /\ event[r].from = Len(filters)
        /\ event[r].n = 3
        /\ event[r].caller = Len(filters) - 1

----------------------------------------------------------------------------
(* C4 *)

\* no filter can be selected from the advanced cursor p on
NothingSelectable(p, req) == LowestSelectable(p, req) = NoFilter

\* C4: when a Proceed() call finds no filter whose guards hold (the cursor
\* falls off the end of the chain, or the forward scan matches nothing), it
\* invokes no handler and returns nil; when that call is the Dispatcher's,
\* nothing is written to the response.
C4_ExhaustionSilent ==
    \A r \in ReqIds :
        (IsCall(r) /\ NothingSelectable(event[r].from + 1, request[r])) =>
            /\ event[r].run = NoFilter
            /\ Len(log[r]) = event[r].logLen
            /\ Top(stack[r]).idx = event[r].caller
            /\ Top(stack[r]).last = NilError
            /\ event[r].caller = Dispatcher => Response[r] = <<>>

\* the Dispatcher's Proceed() scanned a chain of rule-bearing filters,
\* matched nothing, and ServeHTTP has returned
C4_Witness ==
    \E r \in ReqIds :
        /\ pc[r] = "done"
        /\ IsCall(r)
        /\ event[r].caller = Dispatcher
        /\ event[r].run = NoFilter
        /\ event[r].pos < Len(filters)

----------------------------------------------------------------------------
(* C5 *)

NoDuplicates(sq) == \A i, j \in 1..Len(sq) : sq[i] = sq[j] => i = j

\* C5: Proceed() returns exactly the value returned by the handler it
\* invoked; an error that a handler returns is handed to the Dispatcher
\* unchanged when every enclosing handler returns the result of its own
\* Proceed() call, and the Dispatcher writes that error's message; no
\* handler is executed a second time.
C5_ErrorPropagation ==
    \A r \in ReqIds :
        /\ (IsReturn(r) /\ pc[r] = "serving") =>
               Top(stack[r]).last = event[r].val
        /\ (prop[r] # NilError /\ pc[r] = "serving") =>
               Top(stack[r]).last = prop[r]
        /\ (prop[r] # NilError /\ pc[r] = "done") =>
               Response[r] = <<HttpError(ErrorMsg(prop[r]), 500)>>
        /\ NoDuplicates(log[r])

\* the first handler called Proceed() once and returned its result, the
\* second handler invoked the third, the third returned its error, and the
\* Dispatcher wrote that error: it crossed two enclosing handlers
C5_Witness ==
    \E r \in ReqIds :
        /\ pc[r] = "done"
        /\ Len(log[r]) = 3
        /\ IsReturn(r)
        /\ event[r].idx = log[r][1]
        /\ event[r].ncalls = 1
        /\ event[r].pass
        /\ prop[r] = OwnError(log[r][3])
        /\ Response[r] = <<HttpError(ErrorMsg(OwnError(log[r][3])), 500)>>

----------------------------------------------------------------------------
(* C6 *)

\* C6: for a non-empty registry ServeHTTP builds a fresh context (cursor -1)
\* through the context factory (NewContext when there is none), calls
\* Proceed() on it exactly once, and writes a status-500 response whose body
\* is the error message if and only if that call returned a non-nil error.
C6_Dispatcher ==
    \A r \in ReqIds :
        (pc[r] # "idle" /\ Len(filters) > 0) =>
            /\ built[r] = IF contextFactory = "nil" THEN "NewContext"
                          ELSE "contextFactory"
            /\ stack[r][1].idx = Dispatcher
            /\ stack[r][1].ncalls <= 1
            /\ (IsCall(r) /\ event[r].caller = Dispatcher) =>
                   event[r].from = -1 /\ event[r].n = 1
            /\ pc[r] = "serving" => Response[r] = <<>>
            /\ pc[r] = "done" =>
                   /\ stack[r][1].ncalls = 1
                   /\ Response[r] =
                          IF stack[r][1].last = NilError THEN <<>>
                          ELSE <<[status |-> 500,
                                  body |-> stack[r][1].last.msg]>>

\* ServeHTTP has returned after writing the error of the first handler
C6_Witness ==
    \E r \in ReqIds :
        /\ pc[r] = "done"
        /\ Len(log[r]) = 1
        /\ Response[r] = <<[status |-> 500, body |-> OwnError(log[r][1]).msg]>>

----------------------------------------------------------------------------
(* C7 *)

\* C7: if the handler invoked by a Proceed() call returns without itself
\* calling Proceed(), that Proceed() call has executed no other handler: it
\* returns to its caller with that handler the last one invoked.
C7_ShortCircuit ==
    \A r \in ReqIds :
        (IsReturn(r) /\ event[r].ncalls = 0) =>
            /\ event[r].ran = 0
            /\ log[r][Len(log[r])] = event[r].idx
            /\ \A i \in 1..Len(stack[r]) : stack[r][i].idx # event[r].idx

\* a handler returned without calling Proceed() while filters that match the
\* request follow it in the chain
C7_Witness ==
    \E r \in ReqIds :
        /\ IsReturn(r)
        /\ event[r].ncalls = 0
        /\ LowestSelectable(event[r].idx + 1, request[r]) # NoFilter

----------------------------------------------------------------------------
(* C8 *)

\* C8: when Proceed() advances the cursor onto a ruleless filter, that
\* filter's handler is invoked, whatever the request's method and path, and
\* its result is what Proceed() returns.
C8_RulelessAlwaysRuns ==
    \A r \in ReqIds :
        /\ (/\ IsCall(r)
            /\ event[r].from + 1 < Len(filters)
            /\ Ruleless(At(filters, event[r].from + 1))) =>
               /\ event[r].run = event[r].from + 1
               /\ filterPos[r] = event[r].from + 1
               /\ Top(stack[r]).idx = event[r].from + 1
               /\ log[r][Len(log[r])] = event[r].from + 1
        /\ (/\ IsReturn(r)
            /\ pc[r] = "serving"
            /\ Ruleless(At(filters, event[r].idx))) =>
               Top(stack[r]).last = event[r].val

\* Proceed() advanced onto a ruleless filter that lists methods the request's
\* method is not among, and invoked it
C8_Witness ==
    \E r \in ReqIds :
        /\ IsCall(r)
        /\ event[r].run = event[r].from + 1
        /\ Ruleless(At(filters, event[r].run))
        /\ ~MethodGuard(At(filters, event[r].run), request[r])

----------------------------------------------------------------------------
(* C9 *)

\* the position of the filter that carries handler h, NoFilter when none
PositionOf(h) ==
    LET S == {i \in From(0) : At(filters, i).handler = h}
    IN  IF S = {} THEN NoFilter ELSE Min(S)

\* the handler registered right after h by the same PushMethod call
Successor(h) == <<h[1], h[2] + 1>>

\* C9: for a registration PushMethod(methods, rule, h1..hk), the first
\* Proceed() call of h_j (j < k) invokes h_(j+1), directly after h_j with no
\* other handler in between, whatever the request's method and path; h1..hk
\* lie next to each other in the chain in registration order.
C9_TrailingHandlers ==
    /\ \A i \in From(0) :
          LET h == At(filters, i).handler
          IN  /\ h \in RegIds \X (1..MaxHandlers)
              /\ h[2] > 1 => (i > 0 /\ Successor(At(filters, i - 1).handler) = h)
    /\ \A r \in ReqIds :
          (/\ IsCall(r)
           /\ event[r].caller # Dispatcher
           /\ event[r].n = 1
           /\ PositionOf(Successor(At(filters, event[r].caller).handler))
                  # NoFilter) =>
              /\ event[r].run # NoFilter
              /\ At(filters, event[r].run).handler =
                     Successor(At(filters, event[r].caller).handler)
              /\ Len(log[r]) >= 2
              /\ log[r][Len(log[r]) - 1] = event[r].caller
              /\ log[r][Len(log[r])] = event[r].run

\* h1 of a GET-only registration with rule "*" was invoked for a POST
\* request, called Proceed(), and h2 was invoked
C9_Witness ==
    \E r \in ReqIds :
        /\ IsCall(r)
        /\ event[r].caller # Dispatcher
        /\ event[r].run # NoFilter
        /\ At(filters, event[r].caller).handler[2] = 1
        /\ At(filters, event[r].run).handler =
               Successor(At(filters, event[r].caller).handler)
        /\ ~MethodGuard(At(filters, event[r].caller), request[r])

----------------------------------------------------------------------------
(* C10 *)

\* the chain built by GET(r1, trace, h1) and then GET(r2, trace, h2)
TwoTracedRoutes(r1, r2) ==
    PushedFilters(EmptyStr, <<"GET">>, r1, <<<<1, 1>>, <<1, 2>>>>)
        \o PushedFilters(EmptyStr, <<"GET">>, r2, <<<<2, 1>>, <<2, 2>>>>)

IsPrefixOf(a, b) == Len(a) <= Len(b) /\ SubSeq(b, 1, Len(a)) = a

\* C10: with GET(r1, trace, h1) then GET(r2, trace, h2), r1 and r2 distinct
\* exact rules, a GET request for path r2 executes the second registration's
\* trace and then, when trace calls Proceed(), h2, and nothing else: neither
\* filter of the first registration is executed.
C10_SecondRouteOnly ==
    \A r \in ReqIds, r1, r2 \in {RuleA, RuleB} :
        (/\ r1 # r2
         /\ pc[r] # "idle"
         /\ request[r] = [Method |-> "GET", Path |-> r2]
         /\ filters = TwoTracedRoutes(r1, r2)) =>
            /\ IsPrefixOf(log[r], <<2, 3>>)
            /\ (IsCall(r) /\ event[r].caller = Dispatcher) => event[r].run = 2
            /\ (IsCall(r) /\ event[r].caller = 2 /\ event[r].n = 1) =>
                   event[r].run = 3
            /\ (pc[r] = "done" /\ filterPos[r] > 2) => log[r] = <<2, 3>>

\* the request is done, and trace and h2 of the second registration ran
C10_Witness ==
    \E r \in ReqIds, r1, r2 \in {RuleA, RuleB} :
        /\ r1 # r2
        /\ filters = TwoTracedRoutes(r1, r2)
        /\ request[r] = [Method |-> "GET", Path |-> r2]
        /\ pc[r] = "done"
        /\ log[r] = <<2, 3>>

----------------------------------------------------------------------------
(* Helpers of the registration properties                                  *)

\* a group rule "/p/*", and its prefix "/p/"
IsGroup(rule) == HasPrefix(rule, <<"/">>) /\ HasSuffix(rule, <<"*">>)
GroupPrefix(rule) == SubSeq(rule, 1, Len(rule) - 1)

\* a relative rule starts with neither "/" nor "*"
IsRelative(rule) == ~HasPrefix(rule, <<"/">>) /\ ~HasPrefix(rule, <<"*">>)

\* the filters the j-th registration call appended, and its handlers
FiltersOf(j) == SubSeq(filters, pushed[j].at + 1, pushed[j].at + pushed[j].k)
HandlersOf(j) == [i \in 1..pushed[j].k |-> <<j, i>>]

\* the filters a PushMethod call with an absolute rule appends, whatever
\* was registered before it
Direct(methods, rule, handlers) ==
    PushedFilters(EmptyStr, methods, rule, handlers)

----------------------------------------------------------------------------
(* C12 *)

\* C12: registering a group rule "/p/*" and then a relative rule r (one
\* starting with neither "/" nor "*") yields for r filters compiled
\* identically (route, wildcard shape, template segments, allowed methods)
\* to those obtained by registering "/p/" + r directly.
C12_GroupConcatenation ==
    \A j \in 2..Len(pushed) :
        LET g == pushed[j - 1]
            p == pushed[j]
        IN  (/\ g.op = "PushMethod" /\ IsGroup(g.rule)
             /\ p.op = "PushMethod" /\ IsRelative(p.rule)) =>
                FiltersOf(j) = Direct(p.methods, GroupPrefix(g.rule) \o p.rule,
                                      HandlersOf(j))

\* "/greet/*" then GET "sayhi/:id": the filter of the second call is the
\* template filter of "/greet/sayhi/:id"
C12_Witness ==
    /\ Len(pushed) = 2
    /\ pushed[1].op = "PushMethod" /\ pushed[1].rule = RuleGreet
    /\ pushed[2].op = "PushMethod" /\ pushed[2].rule = RuleSayHi
    /\ pushed[2].k = 1
    /\ filters[Len(filters)] =
           [route |-> <<"/", "g", "r", "e", "e", "t", "/", "s", "a", "y", "h", "i", "/", ":", "i", "d">>,
            wildcard |-> 0,
            template |-> <<EmptyStr, <<"g", "r", "e", "e", "t">>, <<"s", "a", "y", "h", "i">>, <<":", "i", "d">>>>,
            allowedMethods |-> <<"GET">>, handler |-> <<2, 1>>]

----------------------------------------------------------------------------
(* C13 *)

\* the PushMethod calls before the j-th call whose rule starts with "/"
AbsoluteBefore(j) ==
    {i \in 1..(j - 1) :
        pushed[i].op = "PushMethod" /\ HasPrefix(pushed[i].rule, <<"/">>)}

\* the greatest element of a non-empty set of integers
Max(S) == CHOOSE x \in S : \A y \in S : y <= x

\* C13: registering an absolute rule that starts with "/" and does not end
\* with "*" clears lastRule: a relative rule r registered afterwards, with
\* no group rule in between, is compiled as "/" + r and not as the earlier
\* group prefix + r; the same "/" + r applies when no group rule was ever
\* registered.
C13_AbsoluteClearsPrefix ==
    \A j \in 1..Len(pushed) :
        LET p == pushed[j]
            A == AbsoluteBefore(j)
        IN  (/\ p.op = "PushMethod" /\ IsRelative(p.rule)
             /\ (A = {} \/ ~IsGroup(pushed[Max(A)].rule))) =>
                FiltersOf(j) =
                    Direct(p.methods, <<"/">> \o p.rule, HandlersOf(j))

\* "/greet/*", then "/q", then "sayhi/:id": the third call compiles
\* "/sayhi/:id"
C13_Witness ==
    /\ Len(pushed) = 3
    /\ \A j \in 1..3 : pushed[j].op = "PushMethod"
    /\ pushed[1].rule = RuleGreet
    /\ pushed[2].rule = RuleQ
    /\ pushed[3].rule = RuleSayHi /\ pushed[3].k = 1
    /\ lastRule = EmptyStr
    /\ filters[Len(filters)].route = <<"/", "s", "a", "y", "h", "i", "/", ":", "i", "d">>

----------------------------------------------------------------------------
(* Helpers of the matching properties                                      *)

\* the filter and the request of the last application of IsValid
Probed == At(filters, probe.filter)
ProbedRequest == probe.request

\* the pattern the filter at chain position i was compiled from: the rule
\* handed to setRule by the call that appended it as its first filter
PatternOf(i) ==
    LET j == CHOOSE j \in 1..Len(pushed) : pushed[j].at = i
    IN  pushed[j].compiled

\* the method guard as stated: no allowed methods (nil), or the request
\* method, an empty one read as GET, is one of them
MethodAllows(allowed, method) ==
    \/ allowed = NilMethods
    \/ \E i \in 1..Len(allowed) :
           allowed[i] = (IF method = "" THEN "GET" ELSE method)

\* the four shapes of a non-empty pattern, in the order of their detection
IsSuffixPattern(pat) == HasPrefix(pat, <<"*">>)
IsPrefixPattern(pat) == ~HasPrefix(pat, <<"*">>) /\ HasSuffix(pat, <<"*">>)
IsTemplatePattern(pat) ==
    /\ ~HasPrefix(pat, <<"*">>) /\ ~HasSuffix(pat, <<"*">>)
    /\ Contains(pat, ":")

\* a parameter segment of a template
IsParam(seg) == HasPrefix(seg, <<":">>)

\* same number of segments, and every segment of the pattern that is no
\* parameter equals the segment of the path at its position
SegmentsMatch(pat, path) ==
    LET t == Split(pat, "/")
        u == Split(path, "/")
    IN  /\ Len(t) = Len(u)
        /\ \A k \in 1..Len(t) : IsParam(t[k]) \/ t[k] = u[k]

----------------------------------------------------------------------------
(* C14 *)

\* C14: a Template filter matches a path if and only if splitting the rule
\* and the path on "/" gives the same number of segments and every
\* non-parameter template segment equals the path segment at the same
\* position (the method guard permitting); in particular pattern /a/:x/b
\* does not match path /a/1/2/b.
C14_TemplateMatch ==
    probe.made =>
        LET pat == PatternOf(probe.filter)
        IN  (/\ IsTemplatePattern(pat)
             /\ MethodAllows(Probed.allowedMethods, ProbedRequest.Method)) =>
                probe.valid = SegmentsMatch(pat, ProbedRequest.Path)

\* pattern /a/:x/b applied to path /a/1/2/b: no match
C14_Witness ==
    /\ probe.made
    /\ PatternOf(probe.filter) = RuleTemplate
    /\ ProbedRequest = [Method |-> "GET", Path |-> PathTooLong]
    /\ Probed.template = <<EmptyStr, <<"a">>, <<":", "x">>, <<"b">>>>
    /\ ~probe.valid

----------------------------------------------------------------------------
(* C15 *)

\* the literal of a pattern "*L"
SuffixLiteral(pat) == SubSeq(pat, 2, Len(pat))

\* C15 (as stated): a filter compiled from a pattern "*L" matches a path
\* (the method guard permitting) if and only if the path ends with the
\* literal L.
C15_SuffixWildcard ==
    probe.made =>
        LET pat == PatternOf(probe.filter)
        IN  (/\ IsSuffixPattern(pat)
             /\ MethodAllows(Probed.allowedMethods, ProbedRequest.Method)) =>
                probe.valid = HasSuffix(ProbedRequest.Path, SuffixLiteral(pat))

\* C15, the part that holds: the same equivalence for every pattern "*L"
\* whose literal L is not empty.
C15_NonEmptyLiteral ==
    probe.made =>
        LET pat == PatternOf(probe.filter)
        IN  (/\ IsSuffixPattern(pat)
             /\ SuffixLiteral(pat) # EmptyStr
             /\ MethodAllows(Probed.allowedMethods, ProbedRequest.Method)) =>
                probe.valid = HasSuffix(ProbedRequest.Path, SuffixLiteral(pat))

\* the pattern "*" applied to GET /a: the path ends with the empty literal
\* and IsValid is false
C15_Failing ==
    /\ probe.made
    /\ PatternOf(probe.filter) = StarRule
    /\ Probed.wildcard = WILDCARD_BEFORE
    /\ Probed.allowedMethods = NilMethods
    /\ ProbedRequest = [Method |-> "GET", Path |-> RuleA]
    /\ ~probe.valid

----------------------------------------------------------------------------
(* C16 *)

\* the literal of a pattern "L*"
PrefixLiteral(pat) == SubSeq(pat, 1, Len(pat) - 1)

\* C16: a filter compiled from a pattern "L*" (one that does not start with
\* the wildcard) matches a path (the method guard permitting) if and only
\* if the path starts with the literal L; a filter registered with
\* GET("/*") matches every GET request, whose path starts with "/".
C16_PrefixWildcard ==
    probe.made =>
        LET pat == PatternOf(probe.filter)
            req == ProbedRequest
        IN  /\ (/\ IsPrefixPattern(pat)
                /\ MethodAllows(Probed.allowedMethods, req.Method)) =>
                   probe.valid = HasPrefix(req.Path, PrefixLiteral(pat))
            /\ (/\ pushed[1].op = "PushMethod"
                /\ pushed[1].methods = <<"GET">>
                /\ pushed[1].rule = RuleAll
                /\ req.Method = "GET"
                /\ HasPrefix(req.Path, <<"/">>)) => probe.valid

\* "/static/*" applied to /static/a/b: a match
C16_Witness ==
    /\ probe.made
    /\ PatternOf(probe.filter) = RuleStatic
    /\ Probed.wildcard = WILDCARD_AFTER
    /\ ProbedRequest.Path = PathStaticAB
    /\ probe.valid

----------------------------------------------------------------------------
(* C17 *)

\* C17: the method guard of a rule-bearing filter passes when the filter
\* has no allowed methods; otherwise it passes if and only if the request
\* method, an empty method read as GET, is one of the allowed methods.  A
\* filter whose method guard fails never matches, whatever the path; one
\* whose method guard passes matches exactly when its path guard holds.
C17_MethodGuard ==
    probe.made =>
        LET f   == Probed
            req == ProbedRequest
        IN  /\ ~MethodAllows(f.allowedMethods, req.Method) => ~probe.valid
            /\ (/\ f.route # EmptyStr
                /\ MethodAllows(f.allowedMethods, req.Method)) =>
                   probe.valid = PathGuard(f, req)

\* a filter registered for GET matches a request whose method is empty
C17_Witness ==
    /\ probe.made
    /\ Probed.allowedMethods = <<"GET">>
    /\ Probed.route # EmptyStr
    /\ ProbedRequest.Method = ""
    /\ probe.valid

----------------------------------------------------------------------------
(* C20 *)

\* the shapes of a compiled filter, read from its fields as IsValid does
Shapes == {"suffix", "prefix", "template", "exact"}
HasShape(f, shape) ==
    CASE shape = "suffix"   -> f.wildcard = WILDCARD_BEFORE
      [] shape = "prefix"   -> f.wildcard = WILDCARD_AFTER
      [] shape = "template" -> f.template # <<>>
      [] shape = "exact"    -> f.wildcard = 0 /\ f.template = <<>>

\* the shape of a non-empty pattern: the wildcard marker is looked for
\* before the parameter marker
PatternShape(pat) ==
    IF IsSuffixPattern(pat) THEN "suffix"
    ELSE IF IsPrefixPattern(pat) THEN "prefix"
    ELSE IF IsTemplatePattern(pat) THEN "template"
    ELSE "exact"

\* C20: rule compilation checks the wildcard marker before the parameter
\* marker: a pattern that starts or ends with "*" is compiled as a
\* suffix/prefix wildcard with no template segments even when it contains
\* ":" (and is matched by its literal, not by segments), so exactly one of
\* the shapes {suffix wildcard, prefix wildcard, template, exact} applies
\* to every non-empty pattern.
C20_WildcardBeforeTemplate ==
    /\ \A j \in 1..Len(pushed) :
          LET pat == pushed[j].compiled
              f   == filters[pushed[j].at + 1]
          IN  (pushed[j].k >= 1 /\ pat # EmptyStr) =>
                 /\ {sh \in Shapes : HasShape(f, sh)} = {PatternShape(pat)}
                 /\ (HasPrefix(pat, <<"*">>) \/ HasSuffix(pat, <<"*">>)) =>
                        f.wildcard # 0 /\ f.template = <<>>
    /\ probe.made =>
          LET pat == PatternOf(probe.filter)
              req == ProbedRequest
          IN  (/\ Contains(pat, ":")
               /\ MethodAllows(Probed.allowedMethods, req.Method)) =>
                  /\ IsSuffixPattern(pat) =>
                         probe.valid = HasSuffix(req.Path, SuffixLiteral(pat))
                  /\ IsPrefixPattern(pat) =>
                         probe.valid = HasPrefix(req.Path, PrefixLiteral(pat))

\* the pattern "*:a" is a suffix wildcard without template segments and
\* matches /:a by its literal
C20_Witness ==
    /\ probe.made
    /\ PatternOf(probe.filter) = <<"*", ":", "a">>
    /\ Probed.wildcard = WILDCARD_BEFORE
    /\ Probed.template = <<>>
    /\ ProbedRequest.Path = PathColon
    /\ probe.valid

----------------------------------------------------------------------------
(* C11 *)

\* the chain [ruleless filter (trace), filter of GET "/hello" (writeHello)]
HelloChain ==
    /\ Len(pushed) = 2
    /\ pushed[1].op = "Add" /\ pushed[1].rule = EmptyStr
    /\ pushed[2].op = "PushMethod" /\ pushed[2].rule = RuleHello
    /\ pushed[2].methods = <<"GET">>

IsGetHello(req) == req.Method = "GET" /\ req.Path = RuleHello

\* C11: for the chain [ruleless filter whose handler calls Proceed(),
\* Filter(rule "/hello", methods {GET}, writeHello)], the ruleless handler
\* is the one ServeHTTP's Proceed() invokes, for every request; its first
\* Proceed() invokes writeHello if and only if the request is a GET for
\* "/hello", and writeHello runs in no other way; for any other request,
\* POST "/hello" included, every Proceed() of the ruleless handler invokes
\* nothing and returns nil, and nothing is written by writeHello or by
\* ServeHTTP on a nil result.
C11_HelloScenario ==
    HelloChain =>
        \A r \in ReqIds :
            /\ (IsCall(r) /\ event[r].caller = Dispatcher) =>
                   event[r].run = 0
            /\ (IsCall(r) /\ event[r].caller = 0 /\ event[r].n = 1) =>
                   (event[r].run = 1 <=> IsGetHello(request[r]))
            /\ (\E n \in 1..Len(log[r]) : log[r][n] = 1) =>
                   IsGetHello(request[r])
            /\ (pc[r] # "idle" /\ ~IsGetHello(request[r])) =>
                   /\ (IsCall(r) /\ event[r].caller = 0) =>
                          /\ event[r].run = NoFilter
                          /\ Top(stack[r]).last = NilError
                   /\ \A n \in 1..Len(Response[r]) :
                          \/ Response[r][n] = Body(0)
                          \/ Response[r][n] =
                                 HttpError(ErrorMsg(OwnError(0)), 500)

\* GET /hello served: trace ran, then writeHello, whose body is the
\* response
C11_Witness ==
    /\ HelloChain
    /\ pc[1] = "done"
    /\ request[1] = [Method |-> "GET", Path |-> RuleHello]
    /\ log[1] = <<0, 1>>
    /\ Response[1] = <<Body(1)>>

\* POST /hello served: trace ran and called Proceed(), nothing else ran and
\* nothing is written
C11_PostWitness ==
    /\ HelloChain
    /\ pc[1] = "done"
    /\ request[1] = [Method |-> "POST", Path |-> RuleHello]
    /\ event[1].kind = "return" /\ event[1].idx = 0
    /\ event[1].ncalls = 1 /\ event[1].pass
    /\ log[1] = <<0>>
    /\ Response[1] = <<>>

----------------------------------------------------------------------------
(* Helpers of the path value properties                                    *)

\* the running handler has just computed the path values (no map was
\* cached) and the current filter is its own filter, a template filter
ReadsOwnTemplate(r) ==
    /\ event[r].kind = "pathValues"
    /\ ~event[r].cached
    /\ event[r].cur = event[r].idx
    /\ At(filters, event[r].cur).template # <<>>

\* the template positions at which the parameter called name occurs
Occurrences(template, name) ==
    {k \in 1..Len(template) : template[k] = <<":">> \o name}

\* the parameter names of a template
ParamNames(template) ==
    {Tail(template[k]) : k \in {n \in 1..Len(template) : IsParam(template[n])}}

----------------------------------------------------------------------------
(* C18 *)

\* "/greet/*" registered with one handler (logging), then the relative rule
\* "sayhi/:id" with one handler
GreetChain ==
    /\ Len(pushed) = 2
    /\ pushed[1].op = "PushMethod" /\ pushed[1].rule = RuleGreet
    /\ pushed[2].op = "PushMethod" /\ pushed[2].rule = RuleSayHi

\* C18: with "/greet/*" registered with a logging handler that calls
\* Proceed() and then the relative rule "sayhi/:id" registered with a
\* handler, a GET for /greet/sayhi/42 runs the logging handler and then the
\* handler, and the path values the handler computes map id to "42"; in
\* general, when the handler of a matched template filter computes the path
\* values, the keys are the parameter names of the template and each name
\* that occurs once maps to the path segment at its position.
C18_PathValues ==
    \A r \in ReqIds :
        /\ (/\ GreetChain
            /\ request[r] = [Method |-> "GET", Path |-> PathSayHi]) =>
               /\ (IsCall(r) /\ event[r].caller = Dispatcher) =>
                      event[r].run = 0
               /\ (IsCall(r) /\ event[r].caller = 0 /\ event[r].n = 1) =>
                      event[r].run = 1
               /\ (/\ event[r].kind = "pathValues"
                   /\ event[r].idx = 1 /\ ~event[r].cached) =>
                      /\ event[r].vals.keys = {<<"i", "d">>}
                      /\ event[r].vals.val[<<"i", "d">>] = <<<<"4", "2">>>>
        /\ ReadsOwnTemplate(r) =>
               LET t     == At(filters, event[r].cur).template
                   parts == Split(request[r].Path, "/")
                   vals  == event[r].vals
               IN  /\ vals.keys = ParamNames(t)
                   /\ \A k \in 1..Len(t) :
                          (/\ IsParam(t[k])
                           /\ Occurrences(t, Tail(t[k])) = {k}) =>
                              vals.val[Tail(t[k])] = <<parts[k]>>

\* GET /greet/sayhi/42: the logging handler ran, then the handler, which
\* reads id = "42"
C18_Witness ==
    /\ GreetChain
    /\ request[1] = [Method |-> "GET", Path |-> PathSayHi]
    /\ log[1] = <<0, 1>>
    /\ event[1].kind = "pathValues"
    /\ event[1].idx = 1
    /\ ~event[1].cached
    /\ event[1].vals.val[<<"i", "d">>] = <<<<"4", "2">>>>

----------------------------------------------------------------------------
(* C19 *)

\* C19 (original statement): when a parameter name occurs more than once in
\* a matched template, the value captured under that name is the path
\* segment of its first occurrence.
C19_Original ==
    \A r \in ReqIds :
        ReadsOwnTemplate(r) =>
            LET t     == At(filters, event[r].cur).template
                parts == Split(request[r].Path, "/")
            IN  \A name \in ParamNames(t) :
                    event[r].vals.val[name] =
                        <<parts[Min(Occurrences(t, name))]>>

\* C19 (amended): when a parameter name occurs more than once in a matched
\* template, the value captured under that name is the path segment of its
\* last occurrence: each occurrence overwrites the value of the earlier
\* ones.
C19_Amended ==
    \A r \in ReqIds :
        ReadsOwnTemplate(r) =>
            LET t     == At(filters, event[r].cur).template
                parts == Split(request[r].Path, "/")
            IN  \A name \in ParamNames(t) :
                    event[r].vals.val[name] =
                        <<parts[Max(Occurrences(t, name))]>>

\* the template /:id/:id matched by /1/2: id is "2"
C19_Witness ==
    /\ ReadsOwnTemplate(1)
    /\ At(filters, event[1].cur).template =
           <<EmptyStr, <<":", "i", "d">>, <<":", "i", "d">>>>
    /\ request[1].Path = PathTwice
    /\ event[1].vals.val[<<"i", "d">>] = <<<<"2">>>>

----------------------------------------------------------------------------
(* C21 *)

\* the registration calls that were handed the empty rule and a handler
EmptyRuleCalls == {j \in 1..Len(pushed) : pushed[j].rule = EmptyStr}

\* the Proceed() call of worker r advanced the cursor onto chain position i
LandsOn(r, i) == IsCall(r) /\ event[r].from + 1 = i

\* the group prefix in force at the j-th registration call ("" when there
\* is none)
PrefixAt(j) ==
    LET A == AbsoluteBefore(j)
    IN  IF A # {} /\ IsGroup(pushed[Max(A)].rule)
        THEN GroupPrefix(pushed[Max(A)].rule)
        ELSE EmptyStr

\* C21 (original statement): a filter registered with the empty rule
\* string, through Push/PushMethod as well as through NewFilter, is
\* ruleless: its handler is invoked for every request that reaches it,
\* whatever the method and path.
C21_Original ==
    \A j \in EmptyRuleCalls :
        /\ Ruleless(At(filters, pushed[j].at))
        /\ \A r \in ReqIds :
               LandsOn(r, pushed[j].at) => event[r].run = pushed[j].at

\* C21 (amended): a filter built by NewFilter with the empty rule string
\* is ruleless: its handler is invoked for every request whose cursor
\* lands on it, whatever the method and path.  Push/PushMethod resolve the
\* empty rule like every relative rule: the filter is compiled from "/", or
\* from the group prefix in force, keeps its allowed methods, and its
\* handler is invoked only for the requests that pass its method guard and
\* its path guard.
C21_Amended ==
    \A j \in EmptyRuleCalls :
        LET i == pushed[j].at
            f == At(filters, i)
        IN  IF pushed[j].op = "Add"
            THEN /\ Ruleless(f)
                 /\ f.allowedMethods = NilMethods
                 /\ \A r \in ReqIds : LandsOn(r, i) => event[r].run = i
            ELSE /\ f.route = (IF PrefixAt(j) = EmptyStr THEN <<"/">>
                                ELSE PrefixAt(j))
                 /\ f.allowedMethods = pushed[j].methods
                 /\ \A r \in ReqIds :
                        LandsOn(r, i) =>
                            (event[r].run = i <=>
                                /\ MethodAllows(f.allowedMethods,
                                                request[r].Method)
                                /\ PathGuard(f, request[r]))

\* Push("", h) as the only registration, GET /hello: the cursor lands on
\* the filter, whose route is "/", and its handler is not invoked
C21_Witness ==
    /\ Len(pushed) = 1
    /\ pushed[1].op = "PushMethod" /\ pushed[1].rule = EmptyStr
    /\ pushed[1].methods = NilMethods
    /\ filters[1].route = <<"/">>
    /\ request[1] = [Method |-> "GET", Path |-> RuleHello]
    /\ LandsOn(1, 0)
    /\ event[1].run = NoFilter


-----------------------------------------------------------------------------
\* The empty registry

\* C25: with an empty registry ServeHTTP constructs no context, invokes no
\* handler and writes nothing to the response: a worker that was handed a
\* request over an empty chain has built nothing, has no frame and no
\* invocation in its log, has an empty response, and is done.
C25_EmptyRegistry ==
    \A r \in workers :
        (serving /\ filters = <<>> /\ pc[r] # "idle") =>
            /\ built[r] = "none"
            /\ stack[r] = <<>>
            /\ log[r] = <<>>
            /\ Response[r] = <<>>
            /\ buffers[r] = NoBuffers
            /\ filterPos[r] = -1
            /\ pc[r] = "done"

\* a request was handed to ServeHTTP over an empty registry
C25_Witness ==
    \E r \in workers :
        /\ serving
        /\ filters = <<>>
        /\ pc[r] = "done"
        /\ request[r].Path # <<>>

-----------------------------------------------------------------------------
\* The state after a scan that matched nothing

\* the last event of worker r is a Proceed() call that advanced the cursor
\* onto a filter with a rule and whose forward scan matched no filter
ScanMissed(r) ==
    /\ IsCall(r)
    /\ event[r].run = NoFilter
    /\ event[r].from + 1 < Len(filters)

\* C26: after a Proceed() call whose forward scan found no matching filter
\* the cursor equals the chain length, and the next Proceed() call on that
\* context invokes no handler, returns nil and leaves the cursor there.
C26_ScanMissTerminal ==
    [][\A r \in workers :
          ScanMissed(r) =>
              /\ filterPos[r] = Len(filters)
              /\ (IsCall(r)' /\ event'[r] # event[r]) =>
                     /\ event'[r].run = NoFilter
                     /\ filterPos'[r] = Len(filters)]_vars

\* a Proceed() call invoked a handler although the cursor it started from
\* was left on a filter whose rule the request does not match, which only a
\* scan that matched nothing leaves behind
C26_Failing ==
    \E r \in workers :
        /\ IsCall(r)
        /\ event[r].run # NoFilter
        /\ event[r].from >= 0
        /\ At(filters, event[r].from).route # EmptyStr
        /\ ~IsValid(At(filters, event[r].from), request[r])

-----------------------------------------------------------------------------
\* The order of the executed handlers

\* C27: within one request the chain positions of the executed handlers are
\* strictly increasing in time: no handler runs twice and no handler of a
\* filter before an executed one runs later, however often handlers call
\* Proceed() and also after a nested Proceed() has returned.
C27_StrictlyIncreasing ==
    \A r \in workers :
        \A m, n \in 1..Len(log[r]) :
            m < n => log[r][m] < log[r][n]

\* a handler called Proceed() again after a nested Proceed() had invoked a
\* handler and returned, and the second call invoked a third handler
C27_Witness ==
    \E r \in workers :
        /\ IsCall(r)
        /\ event[r].n >= 2
        /\ event[r].caller # Dispatcher
        /\ event[r].run # NoFilter
        /\ Len(log[r]) >= 3
        /\ log[r][Len(log[r]) - 1] > event[r].caller

-----------------------------------------------------------------------------
\* Group-only registration

\* the registration call p is a PushMethod call with a group rule and no
\* handlers
IsGroupOnly(p) == p.op = "PushMethod" /\ IsGroup(p.rule) /\ p.k = 0

\* C28: PushMethod called with a group rule "/p/*" and no handlers leaves
\* the chain unchanged and records lastRule = "/p/"; a relative rule
\* registered by the next call is compiled as "/p/" + rule.
C28_GroupOnly ==
    /\ [][(Len(pushed') = Len(pushed) + 1 /\ IsGroupOnly(pushed'[Len(pushed')]))
            => /\ filters' = filters
               /\ lastRule' = GroupPrefix(pushed'[Len(pushed')].rule)]_vars
    /\ [](\A j \in 2..Len(pushed) :
            LET g == pushed[j - 1]
                p == pushed[j]
            IN  (IsGroupOnly(g) /\ p.op = "PushMethod" /\ IsRelative(p.rule)) =>
                    /\ pushed[j].at = pushed[j - 1].at
                    /\ FiltersOf(j) =
                           Direct(p.methods, GroupPrefix(g.rule) \o p.rule,
                                  HandlersOf(j)))

\* "/greet/*" without handlers, then "sayhi/:id" with one handler: the
\* chain holds the one filter of the second call, for "/greet/sayhi/:id"
C28_Witness ==
    /\ Len(pushed) = 2
    /\ IsGroupOnly(pushed[1]) /\ pushed[1].rule = RuleGreet
    /\ pushed[2].op = "PushMethod" /\ pushed[2].rule = RuleSayHi
    /\ Len(filters) = 1
    /\ lastRule = GroupPrefix(RuleGreet)
    /\ filters[1].route = GroupPrefix(RuleGreet) \o RuleSayHi

-----------------------------------------------------------------------------
\* What a registration appends

\* C29: PushMethod with k >= 1 handlers appends exactly k filters at the
\* end of the chain, in argument order, and leaves every filter registered
\* before and its position untouched; the first appended filter carries the
\* compiled rule and the allowed methods, the other k-1 have no rule and no
\* method restriction.
C29_AppendsInOrder ==
    [][LET p == pushed'[Len(pushed')]
           n == Len(filters)
       IN  (Len(pushed') = Len(pushed) + 1 /\ p.op = "PushMethod" /\ p.k >= 1)
           => /\ Len(filters') = n + p.k
              /\ SubSeq(filters', 1, n) = filters
              /\ \A i \in 1..p.k : filters'[n + i].handler = <<regs', i>>
              /\ filters'[n + 1] =
                     setRule(ZeroFilter(<<regs', 1>>), p.methods, p.compiled)
              /\ String(filters'[n + 1]) = p.compiled
              /\ filters'[n + 1].allowedMethods = p.methods
              /\ \A i \in 2..p.k :
                     /\ filters'[n + i].route = EmptyStr
                     /\ filters'[n + i].wildcard = 0
                     /\ filters'[n + i].template = <<>>
                     /\ filters'[n + i].allowedMethods = NilMethods]_vars

\* a PushMethod call with two handlers and a method list was made on a
\* chain that already held filters
C29_Witness ==
    /\ Len(pushed) >= 2
    /\ LET p == pushed[Len(pushed)]
       IN  /\ p.op = "PushMethod"
           /\ p.k = 2
           /\ p.at >= 1
           /\ p.methods # NilMethods
           /\ Len(filters) = p.at + 2
           /\ filters[p.at + 1].route # EmptyStr

-----------------------------------------------------------------------------
\* The pattern "*" in the forward scan

\* the filter was compiled from the pattern "*": the suffix wildcard with
\* the empty literal
IsStarFilter(f) == f.wildcard = WILDCARD_BEFORE /\ f.route = EmptyStr

\* the last event of worker r is a Proceed() call that advanced the cursor
\* onto a filter with a rule, so that the forward scan was made
Scanned(r) ==
    /\ IsCall(r)
    /\ event[r].from + 1 < Len(filters)
    /\ At(filters, event[r].from + 1).route # EmptyStr

\* C30: a filter whose pattern is "*" alone matches every request path, also
\* when the forward scan reaches it after filters with a rule failed to
\* match: a scan that has such a filter ahead, allowing the request method,
\* invokes a handler, that of the "*" filter or of a filter before it.
C30_StarInScan ==
    \A r \in workers :
        Scanned(r) =>
            \A j \in (event[r].from + 1)..(Len(filters) - 1) :
                (/\ IsStarFilter(At(filters, j))
                 /\ MethodAllows(At(filters, j).allowedMethods,
                                 request[r].Method))
                    => (event[r].run # NoFilter /\ event[r].run <= j)

\* a forward scan that had a "*" filter ahead, allowing the request method,
\* ended without invoking a handler
C30_Failing ==
    \E r \in workers :
        /\ Scanned(r)
        /\ event[r].run = NoFilter
        /\ \E j \in (event[r].from + 1)..(Len(filters) - 1) :
               /\ IsStarFilter(At(filters, j))
               /\ MethodAllows(At(filters, j).allowedMethods,
                               request[r].Method)

-----------------------------------------------------------------------------
\* Requests served concurrently

\* the context of the request of worker r, and what was written for it
ContextOf(r) ==
    <<request[r], filterPos[r], pathValues[r], Attributes[r], sink[r],
      stack[r], log[r], event[r], prop[r], Response[r], buffers[r], pc[r]>>

\* the step is an operation of worker r that left the event e
Did(r, kind) == event'[r].kind = kind /\ event'[r] # event[r]

\* C23: when requests are served concurrently over one chain, under every
\* interleaving each operation of a request has the outcome it has when the
\* request is served alone: a step changes the context of one request only,
\* Proceed() moves the cursor and invokes the handler that Next yields for
\* the request's own cursor and path, PathValues() captures the segments of
\* the request's own path under the template of its own current filter, and
\* GetAttribute returns what the request's own handlers set.
C23_Isolation ==
    [][\A r \in workers :
          /\ ContextOf(r)' # ContextOf(r) =>
                 \A q \in workers \ {r} : ContextOf(q)' = ContextOf(q)
          /\ Did(r, "call") =>
                 LET res == Next(filters, filterPos[r], request[r])
                 IN  /\ event'[r].from = filterPos[r]
                     /\ event'[r].run = res.run
                     /\ filterPos'[r] = res.pos
                     /\ log'[r] = IF res.run = NoFilter THEN log[r]
                                  ELSE Append(log[r], res.run)
          /\ Did(r, "pathValues") =>
                 LET cur == CurrentFilter(filters, filterPos[r])
                 IN  /\ event'[r].cur = cur
                     /\ event'[r].vals = pathValues'[r].map
                     /\ pathValues'[r].map =
                            IF pathValues[r].isNil
                            THEN PathValuesOf(At(filters, cur).template,
                                              request[r].Path)
                            ELSE pathValues[r].map
          /\ Did(r, "attribute") =>
                 event'[r].value = Attributes[r][event'[r].key]
          /\ Attributes'[r] # Attributes[r] =>
                 \A k \in AttrKeys :
                     Attributes'[r][k] \in {Attributes[r][k], NilAttribute,
                                           UserOf(r)}]_vars

\* two requests are being served at once, at different cursors, each with
\* the path values of its own path and with its own attribute
C23_Witness ==
    /\ workers = ReqIds
    /\ \A r \in ReqIds : pc[r] = "serving" /\ ~pathValues[r].isNil
    /\ filterPos[1] # filterPos[2]
    /\ request[1].Path = PathTwice /\ request[2].Path = PathTwiceB
    /\ pathValues[1].map # pathValues[2].map
    /\ pathValues[1].map.keys # {} /\ pathValues[2].map.keys # {}
    /\ Attributes[1]["user"] = "u" /\ Attributes[2]["user"] = "v"
    /\ event[1].kind = "attribute" /\ event[1].value = "u"

-----------------------------------------------------------------------------
\* The chain while requests are served

\* the filters the j-th registration call built
Registered(j) ==
    LET p == pushed[j]
    IN  IF p.op = "Add" THEN <<NewFilter(p.rule, <<j, 1>>)>>
        ELSE IF p.k = 0 THEN <<>>
        ELSE [ConvertHandlers(HandlersOf(j)) EXCEPT
                 ![1] = setRule(@, p.methods, p.compiled)]

\* C22: no request-time operation (IsValid, Proceed/Next, CurrentFilter,
\* PathValues) modifies the filter list or a field of a filter: once the
\* chain is served no step changes it, a step that changes the context of a
\* request leaves it alone, and at every moment of serving it is the chain
\* the registration calls built.
C22_ChainFrozen ==
    /\ [][/\ serving => filters' = filters
          /\ (\E r \in workers : ContextOf(r)' # ContextOf(r))
                => filters' = filters]_vars
    /\ [](serving =>
             \A j \in 1..Len(pushed) : FiltersOf(j) = Registered(j))

\* both requests were served to the end, each of them ran a handler of the
\* template filter after the scan and read its path values
C22_Witness ==
    /\ serving
    /\ \A r \in workers :
           /\ pc[r] = "done"
           /\ log[r] # <<>>
           /\ ~pathValues[r].isNil
           /\ pathValues[r].map.keys # {}
    /\ workers = ReqIds
    /\ \E i \in 1..Len(filters) : filters[i].template # <<>>

-----------------------------------------------------------------------------
\* ResponseBuffer and the sink of the context

\* the sink of the context of worker r is the buffer of the innermost
\* running ResponseBuffer, the original sink when none is running; every
\* running ResponseBuffer holds the sink that was set when it was entered
\* and its frame is still on the stack
SinkConsistent(r) ==
    /\ sink[r] = IF saved[r] = <<>> THEN OriginalSink ELSE Top(saved[r]).idx
    /\ \A n \in 1..Len(saved[r]) :
           /\ saved[r][n].w = IF n = 1 THEN OriginalSink
                              ELSE saved[r][n - 1].idx
           /\ saved[r][n].depth <= Len(stack[r])

\* C24: ResponseBuffer restores the sink the context had when it was entered
\* on every exit path of its invocation: when Proceed() returned nil, when
\* it returned an error, and when it panicked, in which case the sink is
\* restored as the panic leaves the ResponseBuffer, before it reaches the
\* callers; with nested ResponseBuffers the sink after the outermost one
\* has exited is the sink that was set before it ran.
C24_SinkRestored ==
    /\ [][\A r \in workers :
             Len(saved'[r]) < Len(saved[r]) =>
                 /\ sink'[r] = Top(saved[r]).w
                 /\ Len(saved'[r]) = 0 => sink'[r] = OriginalSink]_vars
    /\ [](\A r \in workers : SinkConsistent(r))
    /\ [](\A r \in workers :
             pc[r] \in {"done", "panic"} =>
                 sink[r] = OriginalSink /\ saved[r] = <<>>)

\* a panic has just left the inner one of two nested ResponseBuffers: the
\* sink is the buffer of the outer one again, which is still running
C24_Witness ==
    \E r \in workers :
        /\ pc[r] = "panicking"
        /\ event[r].kind = "unwind"
        /\ event[r].restored
        /\ Len(saved[r]) = 1
        /\ sink[r] = saved[r][1].idx
        /\ sink[r] # OriginalSink

\* a ResponseBuffer has returned the error of Proceed(): nothing was flushed
\* and the sink is the original one
C24_ErrorWitness ==
    \E r \in workers :
        /\ pc[r] = "serving"
        /\ IsReturn(r)
        /\ event[r].pass
        /\ ~event[r].val.isNil
        /\ saved[r] = <<>>
        /\ sink[r] = OriginalSink
        /\ Response[r] = <<>>
        /\ buffers[r][event[r].idx] # <<>>

\* a ResponseBuffer has returned nil: what the handlers behind it wrote to
\* the buffer is in the original sink
C24_FlushWitness ==
    \E r \in workers :
        /\ pc[r] = "serving"
        /\ IsReturn(r)
        /\ event[r].val.isNil
        /\ saved[r] = <<>>
        /\ sink[r] = OriginalSink
        /\ buffers[r][event[r].idx] # <<>>
        /\ Response[r] = buffers[r][event[r].idx]

-----------------------------------------------------------------------------
\* Ruleless filters and the forward scan

\* C32: the forward scan of Proceed() never selects a ruleless filter: a
\* Proceed() call that invokes the handler of a ruleless filter is one whose
\* cursor increment landed on that filter, and a call that made the scan
\* invokes a filter with a rule or none, stepping over the ruleless filters
\* in between.
C32_ScanSkipsRuleless ==
    \A r \in workers :
        /\ (/\ IsCall(r)
            /\ event[r].run # NoFilter
            /\ Ruleless(At(filters, event[r].run))) =>
               event[r].run = event[r].from + 1
        /\ (Scanned(r) /\ event[r].run # NoFilter) =>
               /\ ~Ruleless(At(filters, event[r].run))
               /\ filterPos[r] = event[r].run

\* the scan stepped over the ruleless second handler of a registration
\* whose first filter did not match and invoked a filter behind it
C32_Witness ==
    \E r \in workers :
        /\ Scanned(r)
        /\ event[r].run >= event[r].from + 3
        /\ Ruleless(At(filters, event[r].from + 2))
        /\ At(filters, event[r].from + 2).handler[2] = 2
        /\ At(filters, event[r].from + 2).handler[1] =
               At(filters, event[r].from + 1).handler[1]

-----------------------------------------------------------------------------
\* Trailing handlers and the first filter of their registration

\* the handler invoked n-th in the request of worker r
Invoked(r, n) == At(filters, log[r][n]).handler

\* C33: a trailing handler h_j (j >= 2) of a registration is executed in a
\* request only if the first handler of that registration was executed
\* earlier in that request, whatever Proceed() calls the handlers make.
C33_TrailingNeedsFirst ==
    \A r \in workers :
        \A n \in 1..Len(log[r]) :
            Invoked(r, n)[2] >= 2 =>
                \E m \in 1..(n - 1) :
                    Invoked(r, m) = <<Invoked(r, n)[1], 1>>

\* a trailing handler was invoked in a request in which the first handler
\* of its registration was not: the first filter has a rule the request
\* does not match
C33_Failing ==
    \E r \in workers :
        \E n \in 1..Len(log[r]) :
            /\ Invoked(r, n)[2] >= 2
            /\ \A m \in 1..Len(log[r]) :
                   Invoked(r, m) # <<Invoked(r, n)[1], 1>>
            /\ LET first == PositionOf(<<Invoked(r, n)[1], 1>>)
               IN  /\ first # NoFilter
                   /\ ~Ruleless(At(filters, first))
                   /\ ~IsValid(At(filters, first), request[r])

-----------------------------------------------------------------------------
\* CurrentFilter and PathValues during a handler

\* C34: throughout the execution of a handler, also after a Proceed() call
\* made by that handler has returned, CurrentFilter() returns the filter
\* whose handler is executing and never nil, so that PathValues() called by
\* the handler does not fail.
C34_CurrentFilterIsOwn ==
    \A r \in workers :
        /\ (event[r].kind = "pathValues" /\ ~event[r].cached) =>
               event[r].cur = event[r].idx
        /\ event[r].kind # "panic"
        /\ pc[r] # "panic"

\* a handler called PathValues() after its Proceed() call had moved the
\* cursor to the chain length: CurrentFilter() returned nil and the call
\* panicked
C34_Failing ==
    \E r \in workers :
        /\ pc[r] = "panic"
        /\ event[r].kind = "panic"
        /\ event[r].idx # Dispatcher
        /\ filterPos[r] = Len(filters)
        /\ log[r] # <<>>
        /\ pathValues[r].isNil

\* a handler called PathValues() after its Proceed() call had invoked a
\* later filter: the values were computed from the template of that filter
C34_OtherFilter ==
    \E r \in workers :
        /\ event[r].kind = "pathValues"
        /\ ~event[r].cached
        /\ event[r].cur # NoFilter
        /\ event[r].cur > event[r].idx
        /\ event[r].ncalls >= 1

\* C35: PathValues() called in the handler of a matched template filter,
\* before that handler calls Proceed(), returns the parameters captured
\* from that filter's own template and the request path, whichever
\* accessors earlier handlers of the request have called.
C35_OwnPathValues ==
    \A r \in workers :
        (/\ event[r].kind = "pathValues"
         /\ event[r].ncalls = 0
         /\ At(filters, event[r].idx).template # <<>>) =>
            event[r].vals = PathValuesOf(At(filters, event[r].idx).template,
                                         request[r].Path)

\* the handler of a matched template filter called PathValues() and got the
\* map an earlier handler of the request had computed from its own filter,
\* without the parameters of the template
C35_Failing ==
    \E r \in workers :
        /\ event[r].kind = "pathValues"
        /\ event[r].cached
        /\ event[r].ncalls = 0
        /\ event[r].cur = event[r].idx
        /\ At(filters, event[r].idx).template # <<>>
        /\ IsValid(At(filters, event[r].idx), request[r])
        /\ event[r].vals.keys = {}
        /\ PathValuesOf(At(filters, event[r].idx).template,
                        request[r].Path).keys # {}

-----------------------------------------------------------------------------
\* ResponseBuffer and what reaches the original sink

\* what was written to the sink s of worker r
ContentOf(r, s) == IF s = OriginalSink THEN Response[r] ELSE buffers[r][s]

\* C36: ResponseBuffer copies what the handlers behind it wrote to its
\* buffer to the sink w it found if and only if its Proceed() call returned
\* nil, and does so while the buffer is still the sink of the context;
\* while the handlers behind it run, what they write goes to the buffer and
\* neither to w nor to the original sink.
C36_FlushOnSuccess ==
    /\ [][\A r \in workers :
             /\ Did(r, "flush") =>
                    LET b == Top(saved[r])
                    IN  /\ sink[r] = b.idx /\ sink'[r] = b.idx
                        /\ event'[r].w = b.w
                        /\ ContentOf(r, b.w)' =
                               IF Top(stack[r]).last = NilError
                               THEN ContentOf(r, b.w) \o buffers[r][b.idx]
                               ELSE ContentOf(r, b.w)
             /\ (saved[r] # <<>> /\ ~Did(r, "flush") /\ pc'[r] # "idle"
                 /\ pc[r] \in {"serving", "panicking"}) =>
                    /\ Response'[r] = Response[r]
                    /\ \A n \in 1..(Len(saved[r]) - 1) :
                           buffers'[r][saved[r][n].idx] =
                               buffers[r][saved[r][n].idx]]_vars
    /\ [](\A r \in workers :
             saved[r] # <<>> =>
                 /\ sink[r] = Top(saved[r]).idx
                 /\ sink[r] # OriginalSink)

\* the Proceed() call of a ResponseBuffer returned an error after a handler
\* behind it had written: the buffer was not flushed, nothing reached the
\* original sink, and the buffer is still the sink
C36_Witness ==
    \E r \in workers :
        /\ event[r].kind = "flush"
        /\ ~event[r].err.isNil
        /\ event[r].w = OriginalSink
        /\ buffers[r][event[r].idx] # <<>>
        /\ Response[r] = <<>>
        /\ sink[r] = event[r].idx

\* the Proceed() call of a ResponseBuffer returned nil: what the handler
\* behind it wrote is in the original sink, and the buffer is still the sink
C36_FlushedWitness ==
    \E r \in workers :
        /\ event[r].kind = "flush"
        /\ event[r].err.isNil
        /\ event[r].w = OriginalSink
        /\ buffers[r][event[r].idx] # <<>>
        /\ Response[r] = buffers[r][event[r].idx]
        /\ sink[r] = event[r].idx

-----------------------------------------------------------------------------
\* When lastRule changes

\* the registration call a step has just made
LastPushed == pushed[Len(pushed)]

\* the prefix a relative rule is resolved against
PrefixOf(last) == IF last = EmptyStr THEN <<"/">> ELSE last

\* C37: PushMethod changes lastRule only when its rule starts with "/": a
\* relative rule, one ending with "*" included, and a rule starting with
\* "*" leave it unchanged, and so does Add; two consecutive relative rules
\* are compiled against the same prefix, and a rule starting with "*" is
\* compiled as it is given.
C37_PrefixChange ==
    /\ [][Len(pushed') = Len(pushed) + 1 =>
            LET p  == LastPushed'
                fs == SubSeq(filters', p.at + 1, p.at + p.k)
                hs == [i \in 1..p.k |-> <<Len(pushed) + 1, i>>]
            IN  /\ (p.op = "Add" \/ ~HasPrefix(p.rule, <<"/">>)) =>
                       lastRule' = lastRule
                /\ (p.op = "PushMethod" /\ IsRelative(p.rule)) =>
                       /\ p.compiled = PrefixOf(lastRule) \o p.rule
                       /\ fs = Direct(p.methods,
                                      PrefixOf(lastRule') \o p.rule, hs)
                /\ (p.op = "PushMethod" /\ HasPrefix(p.rule, <<"*">>)) =>
                       /\ p.compiled = p.rule
                       /\ \A i \in 1..p.k :
                              String(fs[i]) =
                                  IF i = 1 THEN p.rule ELSE EmptyStr]_vars
    /\ [](\A j \in 2..Len(pushed) :
            LET a == pushed[j - 1]
                b == pushed[j]
            IN  (a.op = "PushMethod" /\ IsRelative(a.rule) /\
                 b.op = "PushMethod" /\ IsRelative(b.rule)) =>
                    \E pre \in {SubSeq(a.compiled, 1, n) :
                                    n \in 1..Len(a.compiled)} :
                        /\ a.compiled = pre \o a.rule
                        /\ b.compiled = pre \o b.rule)

\* "/greet/*", then the relative rule "r*", then "sayhi/:id": lastRule is
\* still "/greet/" and the third call compiled "/greet/sayhi/:id"
C37_Witness ==
    /\ Len(pushed) = 3
    /\ pushed[1].op = "PushMethod" /\ pushed[1].rule = RuleGreet
    /\ pushed[2].op = "PushMethod" /\ pushed[2].rule = RuleRStar
    /\ pushed[2].k > 0
    /\ pushed[3].op = "PushMethod" /\ pushed[3].rule = RuleSayHi
    /\ pushed[3].k > 0
    /\ lastRule = GroupPrefix(RuleGreet)
    /\ FiltersOf(3)[1].route = GroupPrefix(RuleGreet) \o RuleSayHi

\* "/greet/*", then "*s", then Add: lastRule is still "/greet/" and the
\* second call compiled "*s"
C37_StarWitness ==
    /\ Len(pushed) = 3
    /\ pushed[1].op = "PushMethod" /\ pushed[1].rule = RuleGreet
    /\ pushed[2].op = "PushMethod" /\ pushed[2].rule = RuleStarS
    /\ pushed[2].k > 0
    /\ pushed[3].op = "Add"
    /\ lastRule = GroupPrefix(RuleGreet)
    /\ String(FiltersOf(2)[1]) = RuleStarS

-----------------------------------------------------------------------------
\* Termination of a request

\* C38: with handlers that return after at most MaxProceed Proceed() calls,
\* every ServeHTTP call returns; the handlers it executed are at most as
\* many as the chain has filters, each at a higher position than the one
\* before; a Proceed() call invokes at most one handler and moves the
\* cursor forward over the positions it examines, never back.
C38_Terminates ==
    /\ \A r \in ReqIds : (pc[r] = "serving") ~> (pc[r] = "done")
    /\ [](\A r \in workers :
             /\ Len(log[r]) <= Len(filters)
             /\ \A n \in 2..Len(log[r]) : log[r][n - 1] < log[r][n])
    /\ [][\A r \in workers :
             /\ Did(r, "call") =>
                    /\ event'[r].from < event'[r].pos
                        \/ event'[r].from = Len(filters)
                    /\ event'[r].pos <= Len(filters)
                    /\ event'[r].run \in {NoFilter, event'[r].pos}
                    /\ log'[r] = IF event'[r].run = NoFilter THEN log[r]
                                 ELSE Append(log[r], event'[r].run)
             /\ (pc[r] = "serving" /\ ~Did(r, "call")) =>
                    log'[r] = log[r] /\ filterPos'[r] = filterPos[r]]_vars

\* a request went through a chain of MaxFilters filters and every one of
\* its handlers was executed; ServeHTTP has returned
C38_Witness ==
    \E r \in workers :
        /\ pc[r] = "done"
        /\ Len(filters) = MaxFilters
        /\ Len(log[r]) = Len(filters)

-----------------------------------------------------------------------------
\* The filters of a JSON-RPC service

\* the filters of the i-th action of the service registered by p, in the
\* chain fs: p.ns service filters come first, then the filters of each
\* action and the filter calling it
ActionFilters(fs, p, i) ==
    LET start == p.at + p.ns + Sum(SubSeq(p.own, 1, i - 1)) + (i - 1)
    IN  SubSeq(fs, start + 1, start + p.own[i] + 1)

\* the positions of the filters of q that carry a rule
RuleBearing(q) == {m \in 1..Len(q) : q[m].route # EmptyStr}

\* a step that registers a built service
IsBuildStep == Len(pushed') = Len(pushed) + 1 /\ LastPushed'.op = "Build"

\* C31 as stated: every action of a service has exactly one filter with a
\* rule, compiled from the rule PushMethod would compile for
\* servicePath + "/" + name: resolved against lastRule, or with "/"
\* prepended, when the service path does not start with "/".
C31_Original ==
    [][IsBuildStep =>
        LET p == LastPushed'
        IN  \A i \in 1..Len(p.names) :
                LET q == ActionFilters(filters', p, i)
                IN  /\ Cardinality(RuleBearing(q)) = 1
                    /\ \A m \in RuleBearing(q) :
                           String(q[m]) =
                               EffectiveRule(lastRule,
                                   ServicePrefix(p.rule) \o p.names[i])]_vars

\* C31, amended: every action of a service has exactly one filter with a
\* rule, the first of its filters, compiled from servicePath + "/" + name
\* as it is given, whatever lastRule holds and whether or not the service
\* path starts with "/"; the registration leaves lastRule unchanged.
C31_Amended ==
    [][IsBuildStep =>
        LET p == LastPushed'
        IN  /\ lastRule' = lastRule
            /\ \A i \in 1..Len(p.names) :
                   LET q == ActionFilters(filters', p, i)
                   IN  /\ RuleBearing(q) = {1}
                       /\ String(q[1]) = ServicePrefix(p.rule) \o p.names[i]
                       /\ q[1].wildcard = 0
                       /\ q[1].allowedMethods = NilMethods]_vars

\* after the group "/greet/*" a service was built for the relative path
\* "j": its action x, which has a filter of its own, is registered under
\* "j/x" and lastRule is still "/greet/"
C31_Witness ==
    /\ Len(pushed) = 2
    /\ pushed[1].op = "PushMethod" /\ pushed[1].rule = RuleGreet
    /\ pushed[2].op = "Build" /\ pushed[2].rule = RelJ
    /\ pushed[2].names[1] = ActionX /\ pushed[2].own[1] = 1
    /\ lastRule = GroupPrefix(RuleGreet)
    /\ ActionFilters(filters, pushed[2], 1)[1].route = RelJ \o <<"/">> \o ActionX

-----------------------------------------------------------------------------
\* The broker of server-sent events

\* C39: every Send call returns in the end, with the lock released,
\* whatever the Serve loops and the unsubscribe calls do meanwhile.
C39_SendReturns ==
    \A s \in Senders :
        (ssePc[SendOf(s)] # "idle") ~>
            (ssePc[SendOf(s)] = "idle" /\ mutex # SendOf(s))

\* a Send call holds the lock and waits to send on the full channel of a
\* client whose Serve loop has ended after a write error and waits for the
\* lock in its deferred unsubscribe: neither will ever take a step
C39_Failing ==
    \E s \in Senders, c \in Clients :
        /\ ssePanic = "none"
        /\ mutex = SendOf(s)
        /\ ssePc[SendOf(s)] = "range"
        /\ todo[s] = {c}
        /\ ~chans[c].closed
        /\ Len(chans[c].buf) = ChanCap
        /\ ssePc[ServeOf(c)] = "lock"
        /\ ssePc[NotifyOf(c)] \in {"notify", "lock"}

\* the Serve call of client c has subscribed its channel
Subscribed(c) == ssePc[ServeOf(c)] \notin {"idle", "subscribe"}

\* an unsubscribe call holds the lock
Unsubscribing == mutex[1] \in {"serve", "notify"}

\* C40: whatever the interleaving of Send, the deferred unsubscribe of
\* Serve and the unsubscribe of the close notification, a channel is closed
\* at most once, by an unsubscribe call that holds the lock and has removed
\* the channel from the subscribers under that same lock, so that outside
\* an unsubscribe call the closed channels are the subscribed ones that
\* left the set; Send sends on subscribed, open channels only; no
\* goroutine panics.
C40_ClosedOnce ==
    /\ [](/\ ssePanic = "none"
          /\ \A c \in Clients :
                 /\ chans[c].closes <= 1
                 /\ chans[c].closed <=> chans[c].closes = 1
                 /\ ~Unsubscribing =>
                        (chans[c].closed <=>
                            (Subscribed(c) /\ c \notin subscribers)))
    /\ [][\A c \in Clients :
             /\ (chans'[c].closed /\ ~chans[c].closed) =>
                    /\ mutex \in Unsubscribers(c)
                    /\ mutex' = mutex
                    /\ ssePc[mutex] = "close"
                    /\ c \notin subscribers
                    /\ \A s \in Senders : c \notin todo[s]
             /\ (c \in subscribers /\ c \notin subscribers') =>
                    /\ mutex \in Unsubscribers(c)
                    /\ mutex' = mutex
                    /\ ssePc'[mutex] = "close"
             /\ (Len(chans'[c].buf) > Len(chans[c].buf) /\ Subscribed(c)) =>
                    /\ ~chans[c].closed
                    /\ c \in subscribers
                    /\ mutex[1] = "send"]_vars

\* the close notification and the deferred unsubscribe of Serve both ran
\* for a client a Send call had sent to: its channel was closed once
C40_Witness ==
    \E c \in Clients :
        /\ ssePc[ServeOf(c)] = "done"
        /\ ssePc[NotifyOf(c)] = "done"
        /\ chans[c].closed /\ chans[c].closes = 1
        /\ chans[c].buf = <<SentEvent>>
        /\ c \notin subscribers
        /\ ssePanic = "none"

====
